---- MODULE Spec2Model ----
(***************************************************************************)
(* Transaction dispatch of the ledger protocol                             *)
(* (crates/namada/src/ledger/protocol/mod.rs): dispatch_tx, the wrapper    *)
(* pass (apply_wrapper_tx, charge_fee, run_fee_unshielding, transfer_fee,  *)
(* check_fees, token_transfer) and the payload executor (apply_wasm_tx,    *)
(* execute_tx, check_vps), over a three-tier write-log and a gas meter.    *)
(***************************************************************************)
EXTENDS Integers, FiniteSets, Sequences, TLC

\* ------------------------------------------------------------- bounds
\* Dispatches per block.
MaxDispatches == 2
\* Largest token::Amount (stands for Amount::MAX): checked_add fails above it.
AmountMax == 4
\* Largest gas cost of one metered step (runner, VP run, wrapper bytes).
MaxStepGas == 3

\* The most verifiers of a transaction.
MaxVerifiers == 3

\* Calls of token_transfer and transfer_fee in a row.
MaxFeeCalls == 2

\* The largest commission.
MaxCommission == 2

\* ------------------------------------------------------------- data
Addresses == {"payer", "proposer"}

\* Amount credited to the fee payer by an unshielding transfer.
UnshieldAmounts == {1}

\* get_tx_fee overflowed (amount_per_gas_unit * gas_limit).
FeeOverflow == -1

NoVal == -1

\* The transactions of the block. unshield: "none" (no unshield_section_hash),
\* "masp" (the hash selects a MASP section), "other" (the hash selects no
\* section, or one that is not a MASP transaction). gas_limit: the limit of the
\* gas meter the transaction is dispatched with; bytes: the wrapper gas of its
\* tx_bytes.
Txs ==
    { [id |-> 1, tx_type |-> "Raw", fee |-> 0, unshield |-> "none",
       gas_limit |-> MaxStepGas - 1, bytes |-> 1],
      [id |-> 2, tx_type |-> "Wrapper", fee |-> 1, unshield |-> "other",
       gas_limit |-> MaxStepGas + 1, bytes |-> 1],
      [id |-> 3, tx_type |-> "Wrapper", fee |-> 2, unshield |-> "masp",
       gas_limit |-> MaxStepGas + 2, bytes |-> 1],
      [id |-> 4, tx_type |-> "Wrapper", fee |-> 1, unshield |-> "none",
       gas_limit |-> 1, bytes |-> MaxStepGas],
      [id |-> 5, tx_type |-> "Wrapper", fee |-> FeeOverflow, unshield |-> "none",
       gas_limit |-> MaxStepGas + 1, bytes |-> 1] }

TxIds == {t.id : t \in Txs}

\* Identity of the transaction synthesized by generate_fee_unshielding.
UnshieldIdOffset == 10

NoTx ==
    [id |-> 0, tx_type |-> "Raw", fee |-> 0, unshield |-> "none", gas_limit |-> 0,
     bytes |-> 0]

\* Tx::header_hash: the hash of the header as it is.
header_hash(tx) ==
    IF tx.tx_type = "Raw" THEN <<"raw", tx.id>> ELSE <<"header", tx.id>>

\* Tx::raw_header_hash: the hash of the header with its type set to Raw.
raw_header_hash(tx) == <<"raw", tx.id>>

\* WrapperTx::generate_fee_unshielding: a Raw transaction running the transfer
\* code on the MASP section.
generate_fee_unshielding(tx) ==
    [id |-> tx.id + UnshieldIdOffset, tx_type |-> "Raw", fee |-> 0,
     unshield |-> "none", gas_limit |-> tx.gas_limit, bytes |-> tx.bytes]

\* ------------------------------------------------------------- storage keys
balance_key(addr) == <<"balance", addr, 0>>

replay_key(hash) == <<"replay", hash[1], hash[2]>>

\* A key the payload writes, and a key of the shielded pool that the
\* unshielding transfer writes.
DataKeys == {<<"data", "k", 1>>}

MaspKey == <<"data", "masp", 1>>

Keys ==
    {balance_key(a) : a \in Addresses}
        \cup DataKeys \cup {MaspKey}
        \cup {replay_key(raw_header_hash(t)) : t \in Txs}
        \cup {replay_key(header_hash(t)) : t \in Txs}
        \cup {replay_key(raw_header_hash(generate_fee_unshielding(t))) :
                t \in {x \in Txs : x.unshield = "masp"}}

EmptyBuf == [k \in Keys |-> NoVal]

\* b overwritten by the entries of a.
Extend(b, a) == [k \in Keys |-> IF a[k] # NoVal THEN a[k] ELSE b[k]]

BufKeys(b) == {k \in Keys : b[k] # NoVal}

\* ------------------------------------------------------------- write-log
\* wl = [tx, precommit, block]: the three buffers; st: committed storage.
EmptyWl == [tx |-> EmptyBuf, precommit |-> EmptyBuf, block |-> EmptyBuf]

\* Reads consult the layers top-down.
read(wl, st, k) ==
    IF wl.tx[k] # NoVal THEN wl.tx[k]
    ELSE IF wl.precommit[k] # NoVal THEN wl.precommit[k]
    ELSE IF wl.block[k] # NoVal THEN wl.block[k]
    ELSE st[k]

write(wl, k, v) == [wl EXCEPT !.tx = [@ EXCEPT ![k] = v]]

commit_tx(wl) ==
    [tx |-> EmptyBuf, precommit |-> EmptyBuf,
     block |-> Extend(wl.block, Extend(wl.precommit, wl.tx))]

\* Mutant: precommit_tx leaves the buffers as they are.
precommit_tx_Noop(wl) == wl

precommit_tx(wl) ==
    [wl EXCEPT !.tx = EmptyBuf, !.precommit = Extend(wl.precommit, wl.tx)]

drop_tx(wl) == [wl EXCEPT !.tx = EmptyBuf, !.precommit = EmptyBuf]

drop_tx_keep_precommit(wl) == [wl EXCEPT !.tx = EmptyBuf]

get_keys(wl) == BufKeys(wl.tx)

get_keys_with_precommit(wl) == BufKeys(wl.tx) \cup BufKeys(wl.precommit)

has_replay_protection_entry(wl, st, hash) == read(wl, st, replay_key(hash)) # NoVal

write_tx_hash(wl, hash) == write(wl, replay_key(hash), 1)

\* token::read_balance: a missing key reads as zero.
read_balance(wl, st, addr) ==
    IF read(wl, st, balance_key(addr)) = NoVal THEN 0
    ELSE read(wl, st, balance_key(addr))

\* ------------------------------------------------------------- gas meter
\* A TxGasMeter: [tx_gas_limit, transaction_gas].
NewMeter(limit) == [tx_gas_limit |-> limit, transaction_gas |-> 0]

\* consume: the gas is added, and the call fails when the total exceeds the
\* limit.
consume(m, n) ==
    [meter |-> [m EXCEPT !.transaction_gas = @ + n],
     ok |-> m.transaction_gas + n <= m.tx_gas_limit]

add_wrapper_gas(m, bytes) == consume(m, bytes)

add_vps_gas(m, vps_gas) == consume(m, vps_gas)

copy_consumed_gas_from(m, other) ==
    [meter |-> [m EXCEPT !.transaction_gas = other.transaction_gas],
     ok |-> other.transaction_gas <= m.tx_gas_limit]

Min(a, b) == IF a <= b THEN a ELSE b

\* ------------------------------------------------------------- fees
\* WrapperTx::fee_payer.
fee_payer(wrapper) == "payer"

\* token::denom_to_amount: the fee in the token's denomination; it fails when
\* the amount does not fit.
denom_to_amount(fees) == [ok |-> fees <= AmountMax, amount |-> fees]

\* Mutant: the source is debited and the destination is not credited.
token_transfer_NoCredit(wl, st, src, dest, amount) ==
    LET src_balance == read_balance(wl, st, src)
    IN  IF src_balance < amount THEN [wl |-> wl, ok |-> FALSE]
        ELSE [wl |-> write(wl, balance_key(src), src_balance - amount), ok |-> TRUE]


\* Mutant: no early return when src = dest.
token_transfer_NoSelfReturn(wl, st, src, dest, amount) ==
    LET src_balance == read_balance(wl, st, src)
        dest_balance == read_balance(wl, st, dest)
    IN  IF src_balance < amount THEN [wl |-> wl, ok |-> FALSE]
        ELSE IF dest_balance + amount > AmountMax THEN [wl |-> wl, ok |-> FALSE]
        ELSE [wl |-> write(write(wl, balance_key(src), src_balance - amount),
                           balance_key(dest), dest_balance + amount),
              ok |-> TRUE]

\* Mutant: the destination balance wraps around instead of failing.
token_transfer_Wraps(wl, st, src, dest, amount) ==
    LET src_balance == read_balance(wl, st, src)
        dest_balance == read_balance(wl, st, dest)
    IN  IF src_balance < amount THEN [wl |-> wl, ok |-> FALSE]
        ELSE IF src = dest THEN [wl |-> wl, ok |-> TRUE]
        ELSE [wl |-> write(write(wl, balance_key(src), src_balance - amount),
                           balance_key(dest),
                           (dest_balance + amount) % (AmountMax + 1)),
              ok |-> TRUE]

\* token_transfer: [wl, ok].
token_transfer(wl, st, src, dest, amount) ==
    LET src_balance == read_balance(wl, st, src)
        dest_balance == read_balance(wl, st, dest)
    IN  IF src_balance < amount THEN [wl |-> wl, ok |-> FALSE]
        ELSE IF src = dest THEN [wl |-> wl, ok |-> TRUE]
        ELSE IF dest_balance + amount > AmountMax THEN [wl |-> wl, ok |-> FALSE]
        ELSE [wl |-> write(write(wl, balance_key(src), src_balance - amount),
                           balance_key(dest), dest_balance + amount),
              ok |-> TRUE]

\* Mutant: an insufficient balance is left with the payer.
transfer_fee_NoDrain(w, st, proposer, wrapper) ==
    LET balance == read_balance(w, st, fee_payer(wrapper))
        fees == denom_to_amount(wrapper.fee)
    IN  IF wrapper.fee = FeeOverflow THEN [wl |-> w, ok |-> FALSE]
        ELSE IF ~fees.ok THEN [wl |-> w, ok |-> FALSE]
        ELSE IF balance >= fees.amount
        THEN token_transfer(w, st, fee_payer(wrapper), proposer, fees.amount)
        ELSE [wl |-> w, ok |-> FALSE]

\* transfer_fee: [wl, ok]; ok = FALSE is Err(FeeError).
transfer_fee(w, st, proposer, wrapper) ==
    LET balance == read_balance(w, st, fee_payer(wrapper))
        fees == denom_to_amount(wrapper.fee)
    IN  IF wrapper.fee = FeeOverflow THEN [wl |-> w, ok |-> FALSE]
        ELSE IF ~fees.ok THEN [wl |-> w, ok |-> FALSE]
        ELSE IF balance >= fees.amount
        THEN token_transfer(w, st, fee_payer(wrapper), proposer, fees.amount)
        ELSE [wl |-> token_transfer(w, st, fee_payer(wrapper), proposer,
                                    balance).wl,
              ok |-> FALSE]

\* Mutant: check_fees accepts every balance.
check_fees_AlwaysOk(wl, st, wrapper) == wrapper.fee # FeeOverflow

\* check_fees: TRUE is Ok, FALSE is Err(FeeError).
check_fees(wl, st, wrapper) ==
    /\ wrapper.fee # FeeOverflow
    /\ denom_to_amount(wrapper.fee).ok
    /\ read_balance(wl, st, fee_payer(wrapper)) >= denom_to_amount(wrapper.fee).amount

\* get_fee_unshielding_transaction: TRUE when it returns Some(transaction).
get_fee_unshielding_transaction(tx) == tx.unshield = "masp"

\* ------------------------------------------------------------- state
\* ------------------------------------------------------------- verifiers
\* The verifier addresses, in the order of Address (the traversal order of the
\* BTreeSet): Established, Implicit, then the internal addresses.
VpAddrOrder ==
    <<"established", "implicit", "Multitoken", "PosSlashPool", "IbcToken",
      "Erc20", "TempStorage">>

VpAddrs == {VpAddrOrder[i] : i \in 1..Len(VpAddrOrder)}

\* The verifiers of vs in the order of the BTreeSet.
Ordered(vs) ==
    LET in_vs(a) == a \in vs
    IN  SelectSeq(VpAddrOrder, in_vs)

\* The gas a VP may consume.
VpGas == {1, MaxStepGas}

\* How the evaluation of a verifier behaves, for a fixed state and
\* transaction. lookup: what validity_predicate(addr) returns ("bound",
\* "unbound" for no hash, "StateError"); read_gas: the gas of that read; run:
\* what the VP returns when gas suffices; gas: the gas the VP consumes.
Behaviours(addr) ==
    IF addr = "established"
    THEN {[lookup |-> "bound", read_gas |-> 1, run |-> r, gas |-> g] :
             r \in {"ok", "VpRunnerError", "InvalidSectionSignature"}, g \in VpGas}
         \cup {[lookup |-> "StateError", read_gas |-> 1, run |-> "ok", gas |-> 1]}
    ELSE IF addr = "implicit"
    THEN {[lookup |-> "bound", read_gas |-> 1, run |-> "ok", gas |-> 1],
          [lookup |-> "unbound", read_gas |-> 1, run |-> "ok", gas |-> 1]}
    ELSE IF addr = "Multitoken"
    THEN {[lookup |-> "bound", read_gas |-> 0, run |-> r, gas |-> g] :
             r \in {"ok", "MultitokenNativeVpError"}, g \in VpGas}
    ELSE {[lookup |-> "bound", read_gas |-> 0, run |-> "ok", gas |-> 0]}

\* The ways rayon may split the verifiers among tasks: consecutive chunks.
RECURSIVE Splits(_)
Splits(s) ==
    IF s = <<>> THEN {<<>>}
    ELSE UNION { {<<SubSeq(s, 1, k)>> \o rest :
                     rest \in Splits(SubSeq(s, k + 1, Len(s)))} : k \in 1..Len(s) }

\* ------------------------------------------------------------- VP gas
\* VpGasMeter::new_from_tx_meter.
new_from_tx_meter(m) ==
    [tx_gas_limit |-> m.tx_gas_limit, initial_gas |-> m.transaction_gas,
     current_gas |-> 0]

\* VpGasMeter::consume: [meter, ok].
vp_consume(vm, n) ==
    [meter |-> [vm EXCEPT !.current_gas = @ + n],
     ok |-> vm.initial_gas + vm.current_gas + n <= vm.tx_gas_limit]

\* VpsGas::set: the final reading of a VP's meter enters the aggregate, which
\* is checked against the ceiling: [gas, ok].
vps_gas_set(gas_used, vm) ==
    [gas |-> gas_used + vm.current_gas,
     ok |-> gas_used + vm.current_gas + vm.initial_gas <= vm.tx_gas_limit]

\* VpsGas::merge: [gas, ok].
vps_gas_merge(a, b, m) ==
    [gas |-> a + b, ok |-> a + b + m.transaction_gas <= m.tx_gas_limit]

\* ------------------------------------------------------------- execute_vps
VpsResultDefault ==
    [accepted_vps |-> {}, rejected_vps |-> {}, errors |-> <<>>,
     status_flags |-> FALSE, gas_used |-> 0]

\* A Result<VpsResult>.
VpsOk(r) == [ok |-> TRUE, error |-> "", value |-> r]

VpsErr(e) == [ok |-> FALSE, error |-> e, value |-> VpsResultDefault]

\* Mutant: IbcToken and Erc20 are accepted without the Multitoken verifier.
tx_accepted_TokensAccepted(addr, b, verifiers, m) ==
    LET fresh == new_from_tx_meter(m)
        r == vp_consume(vp_consume(fresh, b.read_gas).meter, b.gas)
    IN  IF addr \in {"PosSlashPool", "TempStorage"}
        THEN [escape |-> "none", verdict |-> "AccessForbidden", meter |-> fresh,
              ran |-> FALSE]
        ELSE IF addr \in {"IbcToken", "Erc20"}
        THEN [escape |-> "none", verdict |-> "ok", meter |-> fresh, ran |-> FALSE]
        ELSE IF b.lookup = "StateError"
        THEN [escape |-> "StateError", verdict |-> "", meter |-> fresh, ran |-> FALSE]
        ELSE IF b.lookup = "unbound"
        THEN [escape |-> "MissingAddress", verdict |-> "", meter |-> fresh,
              ran |-> FALSE]
        ELSE [escape |-> "none", verdict |-> IF r.ok THEN b.run ELSE "GasError",
              meter |-> r.meter, ran |-> TRUE]

\* The match on the address in the fold's closure: escape is the error that
\* leaves the closure ("none" when the match produces tx_accepted); verdict is
\* tx_accepted ("ok" or the error); meter is the VP's gas meter; ran: VP code
\* ran.
tx_accepted(addr, b, verifiers, m) ==
    LET fresh == new_from_tx_meter(m)
    IN  IF addr \in {"established", "implicit"}
        THEN LET c == vp_consume(fresh, b.read_gas)
                 r == vp_consume(c.meter, b.gas)
             IN  IF b.lookup = "StateError"
                 THEN [escape |-> "StateError", verdict |-> "", meter |-> fresh,
                       ran |-> FALSE]
                 ELSE IF ~c.ok
                 THEN [escape |-> "GasError", verdict |-> "", meter |-> c.meter,
                       ran |-> FALSE]
                 ELSE IF b.lookup = "unbound"
                 THEN [escape |-> "MissingAddress", verdict |-> "", meter |-> c.meter,
                       ran |-> FALSE]
                 ELSE [escape |-> "none",
                       verdict |-> IF r.ok THEN b.run ELSE "GasError",
                       meter |-> r.meter, ran |-> TRUE]
        ELSE IF addr = "Multitoken"
        THEN LET r == vp_consume(fresh, b.gas)
             IN  [escape |-> "none",
                  verdict |-> IF r.ok THEN b.run ELSE "MultitokenNativeVpError",
                  meter |-> r.meter, ran |-> TRUE]
        ELSE IF addr \in {"PosSlashPool", "TempStorage"}
        THEN [escape |-> "none", verdict |-> "AccessForbidden", meter |-> fresh,
              ran |-> FALSE]
        ELSE [escape |-> "none",
              verdict |-> IF "Multitoken" \in verifiers THEN "ok"
                          ELSE "AccessForbidden",
              meter |-> fresh, ran |-> FALSE]

\* The closure of try_fold applied to the accumulator result and addr.
fold_closure(result, addr, b, verifiers, m) ==
    LET t == tx_accepted(addr, b, verifiers, m)
        recorded ==
            IF t.verdict = "ok"
            THEN [result EXCEPT !.accepted_vps = @ \cup {addr}]
            ELSE [result EXCEPT
                     !.status_flags = @ \/ (t.verdict = "InvalidSectionSignature"),
                     !.rejected_vps = @ \cup {addr},
                     !.errors = Append(@, <<addr, t.verdict>>)]
        g == vps_gas_set(recorded.gas_used, t.meter)
    IN  IF t.escape # "none" THEN VpsErr(t.escape)
        ELSE IF ~g.ok THEN VpsErr("GasError")
        ELSE VpsOk([recorded EXCEPT !.gas_used = g.gas])

\* Mutant: the merge keeps the rejections of its left argument only.
merge_vp_results_LeftOnly(a, b, m) ==
    LET g == vps_gas_merge(a.gas_used, b.gas_used, m)
    IN  IF ~g.ok THEN VpsErr("GasError")
        ELSE VpsOk([accepted_vps |-> a.accepted_vps \cup b.accepted_vps,
                    rejected_vps |-> a.rejected_vps,
                    errors |-> a.errors,
                    status_flags |-> a.status_flags,
                    gas_used |-> g.gas])

\* Mutant: the merge puts the errors of its right argument first.
merge_vp_results_Swapped(a, b, m) ==
    LET g == vps_gas_merge(a.gas_used, b.gas_used, m)
    IN  IF ~g.ok THEN VpsErr("GasError")
        ELSE VpsOk([accepted_vps |-> a.accepted_vps \cup b.accepted_vps,
                    rejected_vps |-> a.rejected_vps \cup b.rejected_vps,
                    errors |-> b.errors \o a.errors,
                    status_flags |-> a.status_flags \/ b.status_flags,
                    gas_used |-> g.gas])

merge_vp_results(a, b, m) ==
    LET g == vps_gas_merge(a.gas_used, b.gas_used, m)
    IN  IF ~g.ok THEN VpsErr("GasError")
        ELSE VpsOk([accepted_vps |-> a.accepted_vps \cup b.accepted_vps,
                    rejected_vps |-> a.rejected_vps \cup b.rejected_vps,
                    errors |-> a.errors \o b.errors,
                    status_flags |-> a.status_flags \/ b.status_flags,
                    gas_used |-> g.gas])

\* The reduction of try_reduce on two task results.
try_reduce(left, right, m) ==
    IF left.ok /\ right.ok THEN merge_vp_results(left.value, right.value, m)
    ELSE IF ~left.ok THEN left
    ELSE right

\* check_vps after execute_vps returned res: add_vps_gas on the tx meter.
check_vps(res, m) ==
    IF ~res.ok THEN res
    ELSE IF ~add_vps_gas(m, res.value.gas_used).ok THEN VpsErr("GasError")
    ELSE res

\* ------------------------------------------------------------- protocol txs
\* The validators that sign vote extensions, and their stake.
Validators == {"A", "B"}

stake == [v \in Validators |-> 1]

\* The vote extensions apply_protocol_tx folds into storage.
VextKinds == {"EthEventsVext", "BridgePoolVext", "ValSetUpdateVext"}

\* The variants without a vote-extension wrapper.
UnwrappedKinds == {"EthereumEvents", "BridgePool", "ValidatorSetUpdate"}

\* The Protocol transactions of the block. kind: the ProtocolTxType; data:
\* "ok" (deserializes for the kind), "undecodable", "absent"; validator: the
\* signer of the vote extension. Each vote extension carries one event (one
\* bridge-pool root, one validator-set update) of the block height.
ProtocolTxs ==
    { [id |-> 21, tx_type |-> "Protocol", kind |-> "EthEventsVext",
       data |-> "ok", validator |-> "A", gas_limit |-> 0, bytes |-> 1],
      [id |-> 22, tx_type |-> "Protocol", kind |-> "EthEventsVext",
       data |-> "ok", validator |-> "B", gas_limit |-> 0, bytes |-> 1],
      [id |-> 23, tx_type |-> "Protocol", kind |-> "BridgePoolVext",
       data |-> "ok", validator |-> "A", gas_limit |-> 1, bytes |-> 1],
      [id |-> 24, tx_type |-> "Protocol", kind |-> "BridgePoolVext",
       data |-> "ok", validator |-> "B", gas_limit |-> 1, bytes |-> 1],
      [id |-> 25, tx_type |-> "Protocol", kind |-> "ValSetUpdateVext",
       data |-> "ok", validator |-> "A", gas_limit |-> 1, bytes |-> 1],
      [id |-> 26, tx_type |-> "Protocol", kind |-> "EthereumEvents",
       data |-> "ok", validator |-> "A", gas_limit |-> 1, bytes |-> 1],
      [id |-> 27, tx_type |-> "Protocol", kind |-> "EthEventsVext",
       data |-> "undecodable", validator |-> "A", gas_limit |-> 1, bytes |-> 1],
      [id |-> 28, tx_type |-> "Protocol", kind |-> "BridgePoolVext",
       data |-> "absent", validator |-> "A", gas_limit |-> 1, bytes |-> 1] }

ProtocolIds == {tx.id : tx \in ProtocolTxs}

\* The tally of each vote extension kind's event: the validators that voted
\* and the voting power behind it.
NoTallies == [k \in VextKinds |-> [seen_by |-> {}, voting_power |-> 0]]

tally_key(kind) == <<"eth", kind, 0>>

\* transactions::*::apply_derived_tx / aggregate_votes: a validator's vote is
\* counted unless the tally has seen that validator.
apply_derived_tx(e, kind, validator) ==
    IF validator \in e[kind].seen_by
    THEN [eth |-> e, changed_keys |-> {}]
    ELSE [eth |-> [e EXCEPT ![kind] =
                      [seen_by |-> @.seen_by \cup {validator},
                       voting_power |-> @.voting_power + stake[validator]]],
          changed_keys |-> {tally_key(kind)}]

VARIABLES
    pc,                    \* position in dispatch_tx
    cur,                   \* tx
    tx_bytes,              \* wrapper gas of tx_bytes
    tx_gas_meter,
    unshield_gas_meter,    \* run_fee_unshielding's private meter
    wrapper_args,          \* [present, block_proposer, is_committed_fee_unshield]
    wl,                    \* state.write_log
    storage,               \* committed storage
    changed_keys,          \* apply_wrapper_tx's changed_keys
    valid_fee_unshielding, \* charge_fee's local: "unset", "true", "false", "GasError"
    mode,                  \* the apply_wasm_tx call in progress: "payload", "unshield"
    wasm_res,              \* what apply_wasm_tx returned
    result,                \* what dispatch_tx returned
    block_proposer,        \* the proposer of the block
    ndispatch,             \* dispatches started in this block
    applied,               \* ids of the transactions dispatched before this one
    pre,                   \* the write-log when this dispatch started
    hist,                  \* what this dispatch did so far
    eth,                   \* the vote tallies the protocol transactions fold into
    vps,                   \* a run of execute_vps under check_vps
    call,                  \* the last call of token_transfer or transfer_fee on its own
    stw                    \* a run of tx_update_steward_commission's apply_tx

vars ==
    <<pc, cur, tx_bytes, tx_gas_meter, unshield_gas_meter, wrapper_args, wl,
      storage, changed_keys, valid_fee_unshielding, mode, wasm_res, result,
      block_proposer, ndispatch, applied, pre, hist, eth, vps, call, stw>>

NoResult ==
    [status |-> "none", error |-> "", inner |-> "", accepted |-> FALSE,
     gas_used |-> 0, changed_keys |-> {}, wrapper_changed_keys |-> {}]

Err(e) == [NoResult EXCEPT !.status = "err", !.error = e]

NoArgs ==
    [present |-> FALSE, block_proposer |-> "proposer",
     is_committed_fee_unshield |-> FALSE]

\* hist: unshield: how the unshielding sub-execution ended ("none" when it did
\* not run); precommitted: the precommit buffer when the sub-execution
\* started; sub_writes: the runner's writes in the sub-execution;
\* payload_writes: the runner's writes in the payload; fee_step: "none", "ok",
\* "err"; committed: commit_tx ran in charge_fee; at_commit: the block buffer
\* after that commit; payload_started; wrapper_gas: "none", "ok", "err";
\* flag_before: is_committed_fee_unshield as dispatch_tx received it;
\* fee_balance, fee_dest_balance: the balances of the fee payer and of the
\* block proposer when the fee step started; payload_gas: the gas the payload's
\* runner and VPs consumed; vp_gas: the apply_wasm_tx call ("unshield",
\* "payload") in whose VP run a task raised a Gas error, else "none".
NoHist ==
    [unshield |-> "none", precommitted |-> EmptyBuf, sub_writes |-> EmptyBuf,
     payload_writes |-> EmptyBuf, fee_step |-> "none", committed |-> FALSE,
     at_commit |-> EmptyBuf, payload_started |-> FALSE, wrapper_gas |-> "none",
     flag_before |-> FALSE, fee_balance |-> 0, fee_dest_balance |-> 0,
     payload_gas |-> 0, vp_gas |-> "none"]

\* vps: verifiers, behav and meter are the arguments of execute_vps; tasks:
\* the tasks of the parallel fold, left to right, each with the verifiers it
\* still has to evaluate (items), whether an evaluation is in progress
\* (inflight), its accumulator or error (out) and whether it completed (done);
\* ntasks: the number of tasks of the split; full: a task or a reduction
\* produced an error; phase: "none", "fold",
\* "returned"; result: what execute_vps returned; checked: what check_vps
\* returned; evaluated: the verifiers whose evaluation completed; ran: those
\* for which VP code ran; gas_raised: those whose evaluation ended with a Gas
\* error.
NoVps ==
    [phase |-> "none", verifiers |-> {}, behav |-> <<>>, meter |-> NewMeter(0),
     tasks |-> <<>>, ntasks |-> 0, full |-> FALSE, result |-> VpsOk(VpsResultDefault),
     checked |-> VpsOk(VpsResultDefault), evaluated |-> {}, ran |-> {},
     gas_raised |-> {}]

\* call: fn is the function called, "token_transfer" or "transfer_fee", with
\* its arguments, and ok is whether it returned Ok.
NoCall ==
    [fn |-> "none", src |-> "payer", dest |-> "payer", amount |-> 0, ok |-> FALSE]

\* The stewards whose commission tx_update_steward_commission may update.
Stewards == {"steward1", "steward2"}

\* The commissions a steward may hold or ask for.
Commissions == 0..MaxCommission

NoStewardData == [kind |-> "absent", steward |-> "steward1", commission |-> 0]

\* stw: pc is the position in apply_tx; data is the data section of the tx;
\* verifiers is the verifier set of the Ctx and sentinel its commitment
\* sentinel; commissions is what pgf holds, before what it held when apply_tx
\* was called; result is what apply_tx returned.
NoSteward ==
    [pc |-> "none", data |-> NoStewardData, verifiers |-> {}, sentinel |-> FALSE,
     commissions |-> [s \in Stewards |-> 0], before |-> [s \in Stewards |-> 0],
     result |-> "none"]

StepGas == {1, MaxStepGas}

\* The protocol parameter fee_unshielding_gas_limit.
FeeUnshieldingGasLimit == 2

InitPayerBalances == {1, 3}

InitProposerBalances == {0, 1}

\* Transactions whose raw header hash an earlier block committed.
InitReplayed == {{}, {1, 2}}

Init ==
    /\ pc = "idle"
    /\ cur = NoTx
    /\ tx_bytes = 0
    /\ tx_gas_meter = NewMeter(0)
    /\ unshield_gas_meter = NewMeter(0)
    /\ wrapper_args = NoArgs
    /\ block_proposer \in Addresses
    /\ wl = EmptyWl
    /\ \E pb \in InitPayerBalances, qb \in InitProposerBalances, rp \in InitReplayed :
          /\ pb + qb <= AmountMax
          /\ storage = [k \in Keys |->
                        IF k = balance_key("payer") THEN pb
                        ELSE IF k = balance_key("proposer") THEN qb
                        ELSE IF k \in {replay_key(<<"raw", i>>) : i \in rp} THEN 1
                        ELSE NoVal]
    /\ changed_keys = {}
    /\ valid_fee_unshielding = "unset"
    /\ mode = "payload"
    /\ wasm_res = NoResult
    /\ result = NoResult
    /\ ndispatch = 0
    /\ applied = {}
    /\ pre = EmptyWl
    /\ hist = NoHist
    /\ eth = NoTallies
    /\ vps = NoVps
    /\ call = NoCall
    /\ stw = NoSteward

\* ------------------------------------------------------------- dispatch_tx
\* wrapper_args as dispatch_tx may receive it: absent, or present with the
\* block's proposer.
WrapperArgsInputs ==
    {NoArgs} \cup
    {[present |-> TRUE, block_proposer |-> block_proposer,
      is_committed_fee_unshield |-> f] : f \in BOOLEAN}

\* The match on tx.header().tx_type, with a fresh gas meter of the
\* transaction's gas limit.
StartDispatch(tx, wa) ==
    /\ pc = "idle"
    /\ ndispatch < MaxDispatches
    /\ applied \cap ProtocolIds = {}
    /\ ndispatch' = ndispatch + 1
    /\ cur' = tx
    /\ tx_bytes' = tx.bytes
    /\ tx_gas_meter' = NewMeter(tx.gas_limit)
    /\ unshield_gas_meter' = NewMeter(0)
    /\ wrapper_args' = wa
    /\ changed_keys' = {}
    /\ valid_fee_unshielding' = "unset"
    /\ mode' = "payload"
    /\ wasm_res' = NoResult
    /\ result' = NoResult
    /\ pre' = wl
    /\ hist' = [NoHist EXCEPT !.flag_before = wa.is_committed_fee_unshield,
                              !.at_commit = wl.block,
                              !.payload_started = (tx.tx_type = "Raw")]
    /\ pc' = IF tx.tx_type = "Wrapper" THEN "write_tx_hash" ELSE "wasm_replay"
    /\ UNCHANGED <<wl, storage, block_proposer, eth, vps, call, stw, applied>>

\* Mutant: the error of the wrapper pass is returned as it is.
WrapperRunnerError_Unwrapped(e) == [Err(e) EXCEPT !.inner = e]

\* The error of the wrapper pass as dispatch_tx returns it (map_err).
WrapperRunnerError(e) == [Err("WrapperRunnerError") EXCEPT !.inner = e]

\* apply_wrapper_tx returned Err(e): dispatch_tx returns.
WrapperFails(e) ==
    /\ result' = WrapperRunnerError(e)
    /\ pc' = "done"

\* ------------------------------------------------------------- apply_protocol_tx
\* Mutant: the fold counts every vote it is given.
apply_protocol_tx_Recount(tx, e, fold_ok) ==
    IF tx.data # "ok" \/ (tx.kind \in VextKinds /\ ~fold_ok)
    THEN [eth |-> e, result |-> Err("ProtocolTxError")]
    ELSE IF tx.kind \in VextKinds
    THEN [eth |-> [e EXCEPT ![tx.kind] =
                      [seen_by |-> @.seen_by \cup {tx.validator},
                       voting_power |-> @.voting_power + stake[tx.validator]]],
          result |-> [NoResult EXCEPT !.status = "ok", !.accepted = TRUE,
                                      !.changed_keys = {tally_key(tx.kind)}]]
    ELSE [eth |-> e,
          result |-> [NoResult EXCEPT !.status = "ok", !.accepted = TRUE]]

\* Mutant: absent data is handed to the fold as if it were present.
apply_protocol_tx_NoDataCheck(tx, e, fold_ok) ==
    IF tx.data = "undecodable"
    THEN [eth |-> e, result |-> Err("ProtocolTxError")]
    ELSE IF tx.kind \in VextKinds
    THEN IF ~fold_ok
         THEN [eth |-> e, result |-> Err("ProtocolTxError")]
         ELSE LET r == apply_derived_tx(e, tx.kind, tx.validator)
              IN  [eth |-> r.eth,
                   result |-> [NoResult EXCEPT !.status = "ok", !.accepted = TRUE,
                                               !.changed_keys = r.changed_keys]]
    ELSE [eth |-> e,
          result |-> [NoResult EXCEPT !.status = "ok", !.accepted = TRUE]]

\* apply_protocol_tx: [eth, result]. fold_ok: the fold of the bridge returned
\* Ok. Data absent or not deserializing for the kind, and an error of the
\* fold, are ProtocolTxError; the variants without a vote-extension wrapper
\* return the default TxResult.
apply_protocol_tx(tx, e, fold_ok) ==
    IF tx.data = "absent"
    THEN [eth |-> e, result |-> Err("ProtocolTxError")]
    ELSE IF tx.data = "undecodable"
    THEN [eth |-> e, result |-> Err("ProtocolTxError")]
    ELSE IF tx.kind \in VextKinds
    THEN IF ~fold_ok
         THEN [eth |-> e, result |-> Err("ProtocolTxError")]
         ELSE LET r == apply_derived_tx(e, tx.kind, tx.validator)
              IN  [eth |-> r.eth,
                   result |-> [NoResult EXCEPT !.status = "ok", !.accepted = TRUE,
                                               !.changed_keys = r.changed_keys]]
    ELSE [eth |-> e,
          result |-> [NoResult EXCEPT !.status = "ok", !.accepted = TRUE]]

\* Mutant: the Protocol transaction is charged the gas of its bytes.
DispatchProtocol_ChargesGas(tx, fold_ok) ==
    /\ pc = "idle"
    /\ ndispatch < MaxDispatches
    /\ applied \subseteq ProtocolIds
    /\ fold_ok \/ (tx.data = "ok" /\ tx.kind \in VextKinds)
    /\ ndispatch' = ndispatch + 1
    /\ cur' = tx
    /\ tx_bytes' = tx.bytes
    /\ tx_gas_meter' = consume(NewMeter(tx.gas_limit), tx.bytes).meter
    /\ unshield_gas_meter' = NewMeter(0)
    /\ wrapper_args' = NoArgs
    /\ changed_keys' = {}
    /\ valid_fee_unshielding' = "unset"
    /\ mode' = "payload"
    /\ wasm_res' = NoResult
    /\ pre' = wl
    /\ hist' = [NoHist EXCEPT !.at_commit = wl.block]
    /\ LET r == apply_protocol_tx(tx, eth, fold_ok)
       IN  /\ eth' = r.eth
           /\ result' = r.result
    /\ pc' = "done"
    /\ UNCHANGED <<wl, storage, block_proposer, applied, vps, call, stw>>

\* dispatch_tx on a Protocol transaction: apply_protocol_tx and return. A
\* block holds Protocol transactions or Raw and Wrapper ones: the two touch
\* disjoint parts of the state.
DispatchProtocol(tx, fold_ok) ==
    /\ pc = "idle"
    /\ ndispatch < MaxDispatches
    /\ applied \subseteq ProtocolIds
    /\ fold_ok \/ (tx.data = "ok" /\ tx.kind \in VextKinds)
    /\ ndispatch' = ndispatch + 1
    /\ cur' = tx
    /\ tx_bytes' = tx.bytes
    /\ tx_gas_meter' = NewMeter(tx.gas_limit)
    /\ unshield_gas_meter' = NewMeter(0)
    /\ wrapper_args' = NoArgs
    /\ changed_keys' = {}
    /\ valid_fee_unshielding' = "unset"
    /\ mode' = "payload"
    /\ wasm_res' = NoResult
    /\ pre' = wl
    /\ hist' = [NoHist EXCEPT !.at_commit = wl.block]
    /\ LET r == apply_protocol_tx(tx, eth, fold_ok)
       IN  /\ eth' = r.eth
           /\ result' = r.result
    /\ pc' = "done"
    /\ UNCHANGED <<wl, storage, block_proposer, applied, vps, call, stw>>

\* ------------------------------------------------------------- apply_wrapper_tx
\* Mutant: the header hash is not written before the fee is charged.
ApplyWrapperWriteTxHash_Skipped ==
    /\ pc = "write_tx_hash"
    /\ changed_keys' = {}
    /\ pc' = "fee_unshield"
    /\ UNCHANGED <<cur, tx_bytes, tx_gas_meter, unshield_gas_meter, wrapper_args,
                   wl, storage, valid_fee_unshielding, mode, wasm_res, result,
                   block_proposer, ndispatch, applied, pre, hist, eth, vps, call, stw>>

ApplyWrapperWriteTxHash ==
    /\ pc = "write_tx_hash"
    /\ wl' = write_tx_hash(wl, header_hash(cur))
    /\ changed_keys' = {}
    /\ pc' = "fee_unshield"
    /\ UNCHANGED <<cur, tx_bytes, tx_gas_meter, unshield_gas_meter, wrapper_args,
                   storage, valid_fee_unshielding, mode, wasm_res, result,
                   block_proposer, ndispatch, applied, pre, hist, eth, vps, call, stw>>

\* charge_fee, up to the call of apply_wasm_tx in run_fee_unshielding.
\* generated: generate_fee_unshielding returned Ok.
ChargeFeeUnshield(generated) ==
    /\ pc = "fee_unshield"
    /\ LET min_gas_limit == Min(FeeUnshieldingGasLimit, tx_gas_meter.tx_gas_limit)
           seeded == copy_consumed_gas_from(NewMeter(min_gas_limit), tx_gas_meter)
           back == copy_consumed_gas_from(tx_gas_meter, seeded.meter)
       IN  IF ~get_fee_unshielding_transaction(cur)
           THEN /\ generated
                /\ valid_fee_unshielding' = "false"
                /\ pc' = "fee_step"
                /\ UNCHANGED <<wl, mode, tx_gas_meter, unshield_gas_meter, hist>>
           ELSE IF ~seeded.ok
           THEN /\ generated
                /\ unshield_gas_meter' = seeded.meter
                /\ valid_fee_unshielding' = "GasError"
                /\ pc' = "fee_step"
                /\ hist' = [hist EXCEPT !.unshield = "GasError"]
                /\ UNCHANGED <<wl, mode, tx_gas_meter>>
           ELSE IF generated
           THEN /\ unshield_gas_meter' = seeded.meter
                /\ wl' = precommit_tx(wl)
                /\ hist' = [hist EXCEPT !.precommitted = precommit_tx(wl).precommit]
                /\ mode' = "unshield"
                /\ pc' = "wasm_replay"
                /\ UNCHANGED <<valid_fee_unshielding, tx_gas_meter>>
           ELSE /\ unshield_gas_meter' = seeded.meter
                /\ tx_gas_meter' = back.meter
                /\ valid_fee_unshielding' = IF back.ok THEN "false" ELSE "GasError"
                /\ hist' = [hist EXCEPT !.unshield = "other"]
                /\ pc' = "fee_step"
                /\ UNCHANGED <<wl, mode>>
    /\ UNCHANGED <<cur, tx_bytes, wrapper_args, storage, changed_keys, wasm_res,
                   result, block_proposer, eth, vps, call, stw, ndispatch, applied, pre>>

\* Mutant: a sub-execution that returned Ok is reported as accepted.
UnshieldOutcome_ReportsTrue(res, w) ==
    IF res.status = "ok"
    THEN IF res.accepted
         THEN [wl |-> w, value |-> "true", returns |-> FALSE]
         ELSE [wl |-> drop_tx_keep_precommit(w), value |-> "true", returns |-> FALSE]
    ELSE IF res.error = "GasError"
         THEN [wl |-> drop_tx_keep_precommit(w), value |-> "GasError", returns |-> TRUE]
         ELSE [wl |-> drop_tx_keep_precommit(w), value |-> "false", returns |-> FALSE]

\* Mutant: every error of the sub-execution is returned as the Gas error is.
UnshieldOutcome_Propagates(res, w) ==
    IF res.status = "ok" /\ res.accepted
    THEN [wl |-> w, value |-> "true", returns |-> FALSE]
    ELSE [wl |-> drop_tx_keep_precommit(w), value |-> "GasError", returns |-> TRUE]

\* Mutant: the tx buffer of a rejected sub-execution is not dropped.
UnshieldOutcome_NoDrop(res, w) ==
    IF res.status = "ok"
    THEN [wl |-> w, value |-> IF res.accepted THEN "true" ELSE "false",
          returns |-> FALSE]
    ELSE IF res.error = "GasError"
         THEN [wl |-> drop_tx_keep_precommit(w), value |-> "GasError", returns |-> TRUE]
         ELSE [wl |-> drop_tx_keep_precommit(w), value |-> "false", returns |-> FALSE]

\* What run_fee_unshielding makes of apply_wasm_tx's result:
\* [wl, value, returns]; returns = TRUE is the early return of the Gas error.
UnshieldOutcome(res, w) ==
    IF res.status = "ok"
    THEN IF res.accepted
         THEN [wl |-> w, value |-> "true", returns |-> FALSE]
         ELSE [wl |-> drop_tx_keep_precommit(w), value |-> "false", returns |-> FALSE]
    ELSE IF res.error = "GasError"
         THEN [wl |-> drop_tx_keep_precommit(w), value |-> "GasError", returns |-> TRUE]
         ELSE [wl |-> drop_tx_keep_precommit(w), value |-> "false", returns |-> FALSE]

\* How the sub-execution ended.
UnshieldEnding(res) ==
    IF res.status = "ok" THEN (IF res.accepted THEN "accepted" ELSE "rejected")
    ELSE IF res.error = "GasError" THEN "GasError" ELSE "other"

\* run_fee_unshielding after apply_wasm_tx returned.
RunFeeUnshieldingEnd ==
    /\ pc = "unshield_end"
    /\ LET o == UnshieldOutcome(wasm_res, wl)
           back == copy_consumed_gas_from(tx_gas_meter, unshield_gas_meter)
       IN  /\ wl' = o.wl
           /\ IF o.returns
              THEN /\ valid_fee_unshielding' = o.value
                   /\ UNCHANGED tx_gas_meter
              ELSE /\ tx_gas_meter' = back.meter
                   /\ valid_fee_unshielding' = IF back.ok THEN o.value ELSE "GasError"
    /\ hist' = [hist EXCEPT !.unshield = UnshieldEnding(wasm_res)]
    /\ mode' = "payload"
    /\ pc' = "fee_step"
    /\ UNCHANGED <<cur, tx_bytes, unshield_gas_meter, wrapper_args, storage,
                   changed_keys, wasm_res, result, block_proposer, eth, vps, call, stw, ndispatch, applied, pre>>

FeeStepHist(outcome) ==
    [hist EXCEPT !.fee_step = outcome,
                 !.fee_balance = read_balance(wl, storage, fee_payer(cur)),
                 !.fee_dest_balance =
                     read_balance(wl, storage, wrapper_args.block_proposer)]

\* charge_fee: transfer_fee when wrapper_args is present, check_fees otherwise;
\* an Err leaves charge_fee and apply_wrapper_tx at once.
ChargeFeeStep ==
    /\ pc = "fee_step"
    /\ LET r == IF wrapper_args.present
                THEN transfer_fee(wl, storage, wrapper_args.block_proposer, cur)
                ELSE [wl |-> wl, ok |-> check_fees(wl, storage, cur)]
       IN  /\ wl' = r.wl
           /\ IF r.ok
              THEN /\ pc' = "commit"
                   /\ hist' = FeeStepHist("ok")
                   /\ UNCHANGED result
              ELSE /\ WrapperFails("FeeError")
                   /\ hist' = FeeStepHist("err")
    /\ UNCHANGED <<cur, tx_bytes, tx_gas_meter, unshield_gas_meter, wrapper_args,
                   storage, changed_keys, valid_fee_unshielding, mode, wasm_res,
                   block_proposer, eth, vps, call, stw, ndispatch, applied, pre>>

\* Mutant: the wrapper's writes are precommitted, not committed.
ChargeFeeCommit_Precommits ==
    /\ pc = "commit"
    /\ changed_keys' = changed_keys \cup get_keys_with_precommit(wl)
    /\ wl' = precommit_tx(wl)
    /\ hist' = [hist EXCEPT !.committed = TRUE, !.at_commit = precommit_tx(wl).block]
    /\ pc' = "post_flag"
    /\ UNCHANGED <<cur, tx_bytes, tx_gas_meter, unshield_gas_meter, wrapper_args,
                   storage, valid_fee_unshielding, mode, wasm_res, result,
                   block_proposer, eth, vps, call, stw, ndispatch, applied, pre>>

\* charge_fee: changed_keys.extend(get_keys_with_precommit()); commit_tx().
ChargeFeeCommit ==
    /\ pc = "commit"
    /\ changed_keys' = changed_keys \cup get_keys_with_precommit(wl)
    /\ wl' = commit_tx(wl)
    /\ hist' = [hist EXCEPT !.committed = TRUE, !.at_commit = commit_tx(wl).block]
    /\ pc' = "post_flag"
    /\ UNCHANGED <<cur, tx_bytes, tx_gas_meter, unshield_gas_meter, wrapper_args,
                   storage, valid_fee_unshielding, mode, wasm_res, result,
                   block_proposer, eth, vps, call, stw, ndispatch, applied, pre>>

\* charge_fee: if let Some(args) = wrapper_args
\*                 { args.is_committed_fee_unshield = valid_fee_unshielding?; }
ChargeFeeFlag ==
    /\ pc = "post_flag"
    /\ IF wrapper_args.present
       THEN IF valid_fee_unshielding = "GasError"
            THEN /\ WrapperFails("GasError")
                 /\ UNCHANGED wrapper_args
            ELSE /\ wrapper_args' =
                        [wrapper_args EXCEPT !.is_committed_fee_unshield =
                                                (valid_fee_unshielding = "true")]
                 /\ pc' = "wrapper_gas"
                 /\ UNCHANGED result
       ELSE /\ pc' = "wrapper_gas"
            /\ UNCHANGED <<wrapper_args, result>>
    /\ UNCHANGED <<cur, tx_bytes, tx_gas_meter, unshield_gas_meter, wl, storage,
                   changed_keys, valid_fee_unshielding, mode, wasm_res, block_proposer, eth, vps, call, stw, ndispatch,
                   applied, pre, hist>>

\* apply_wrapper_tx: add_wrapper_gas(tx_bytes); then dispatch_tx calls
\* apply_wasm_tx on the payload.
ApplyWrapperGas ==
    /\ pc = "wrapper_gas"
    /\ LET c == add_wrapper_gas(tx_gas_meter, tx_bytes)
       IN  /\ tx_gas_meter' = c.meter
           /\ IF c.ok
              THEN /\ pc' = "wasm_replay"
                   /\ hist' = [hist EXCEPT !.wrapper_gas = "ok",
                                           !.payload_started = TRUE]
                   /\ UNCHANGED result
              ELSE /\ WrapperFails("GasError")
                   /\ hist' = [hist EXCEPT !.wrapper_gas = "err"]
    /\ UNCHANGED <<cur, tx_bytes, unshield_gas_meter, wrapper_args, wl, storage,
                   changed_keys, valid_fee_unshielding, mode, wasm_res, block_proposer, eth, vps, call, stw, ndispatch,
                   applied, pre>>

\* ------------------------------------------------------------- apply_wasm_tx
\* The transaction and the gas meter of the apply_wasm_tx call in progress.
SubTx == IF mode = "unshield" THEN generate_fee_unshielding(cur) ELSE cur

ActiveMeter == IF mode = "unshield" THEN unshield_gas_meter ELSE tx_gas_meter

SetActiveMeter(m) ==
    IF mode = "unshield"
    THEN unshield_gas_meter' = m /\ UNCHANGED tx_gas_meter
    ELSE tx_gas_meter' = m /\ UNCHANGED unshield_gas_meter

\* Where apply_wasm_tx returns to.
ReturnPc == IF mode = "unshield" THEN "unshield_end" ELSE "dispatch_return"

\* What the sandboxed runner may write to the tx buffer: the payload writes
\* data keys; the unshielding transfer credits the fee payer with tokens of the
\* shielded pool (the total supply fits in an Amount) and marks the pool. The
\* runner may stop before it wrote anything.
RunnerWrites(m, w, st) ==
    IF m = "unshield"
    THEN {EmptyBuf} \cup
         {[EmptyBuf EXCEPT ![balance_key("payer")] = read_balance(w, st, "payer") + u,
                           ![MaspKey] = 1] :
            u \in {x \in UnshieldAmounts :
                      read_balance(w, st, "payer") + read_balance(w, st, "proposer") + x
                          <= AmountMax}}
    ELSE {EmptyBuf} \cup {[EmptyBuf EXCEPT ![k] = 1] : k \in DataKeys}

\* Mutant: apply_wasm_tx does not look at the replay index.
WasmReplayCheck_Skipped ==
    /\ pc = "wasm_replay"
    /\ pc' = "wasm_execute"
    /\ UNCHANGED <<cur, tx_bytes, tx_gas_meter, unshield_gas_meter, wrapper_args,
                   wl, storage, changed_keys, valid_fee_unshielding, mode, result,
                   block_proposer, ndispatch, applied, pre, hist, eth, vps, call, stw,
                   wasm_res>>

\* The replay check at the entry of apply_wasm_tx.
WasmReplayCheck ==
    /\ pc = "wasm_replay"
    /\ IF has_replay_protection_entry(wl, storage, raw_header_hash(SubTx))
       THEN /\ wasm_res' = Err("ReplayAttempt")
            /\ pc' = ReturnPc
       ELSE /\ pc' = "wasm_execute"
            /\ UNCHANGED wasm_res
    /\ UNCHANGED <<cur, tx_bytes, tx_gas_meter, unshield_gas_meter, wrapper_args,
                   wl, storage, changed_keys, valid_fee_unshielding, mode, result,
                   block_proposer, ndispatch, applied, pre, hist, eth, vps, call, stw>>

RunnerOutcomes == {"ok", "MissingSection", "TxRunnerError"}

\* Mutant: the runner's writes are committed to the block buffer.
RunnerWrote_Committed(w, ws) == [w EXCEPT !.block = Extend(@, ws)]

\* The tx buffer after the runner wrote ws.
RunnerWrote(w, ws) == [w EXCEPT !.tx = Extend(@, ws)]

\* execute_tx: the runner consumes gas g, writes ws and ends with out; it ends
\* with a Gas error when the meter refuses g.
WasmExecuteTx(g, ws, out) ==
    /\ pc = "wasm_execute"
    /\ LET c == consume(ActiveMeter, g)
       IN  /\ SetActiveMeter(c.meter)
           /\ wl' = RunnerWrote(wl, ws)
           /\ hist' = IF mode = "unshield"
                      THEN [hist EXCEPT !.sub_writes = ws]
                      ELSE [hist EXCEPT !.payload_writes = ws,
                                        !.payload_gas = @ + g]
           /\ IF ~c.ok
              THEN /\ out = "ok"
                   /\ wasm_res' = Err("GasError")
                   /\ pc' = ReturnPc
              ELSE IF out = "ok"
              THEN /\ pc' = "wasm_vps"
                   /\ UNCHANGED wasm_res
              ELSE /\ wasm_res' = Err(out)
                   /\ pc' = ReturnPc
    /\ UNCHANGED <<cur, tx_bytes, wrapper_args, storage, changed_keys,
                   valid_fee_unshielding, mode, result, block_proposer, eth, vps, call, stw, ndispatch, applied, pre>>

\* What the VP run may end with: every verifier accepted, some verifier
\* rejected, or an error that leaves execute_vps. When a VP task raises a Gas
\* error the run ends with it, or with the State or MissingAddress error of
\* another task.
VpOutcomes == {"accepted", "rejected", "StateError", "MissingAddress"}

\* Mutant: the refusal of add_vps_gas is ignored.
WasmCheckVps_Unchecked(gv, out) ==
    /\ pc = "wasm_vps"
    /\ out \in {"accepted", "rejected"}
    /\ LET c == add_vps_gas(ActiveMeter, gv)
       IN  /\ SetActiveMeter(c.meter)
           /\ wasm_res' = [NoResult EXCEPT !.status = "ok",
                                           !.accepted = (out = "accepted"),
                                           !.gas_used = c.meter.transaction_gas,
                                           !.changed_keys = get_keys(wl)]
    /\ hist' = IF mode = "unshield" THEN hist
               ELSE [hist EXCEPT !.payload_gas = @ + gv]
    /\ pc' = ReturnPc
    /\ UNCHANGED <<cur, tx_bytes, wrapper_args, wl, storage, changed_keys,
                   valid_fee_unshielding, mode, result, block_proposer, eth, vps, call, stw,
                   ndispatch, applied, pre>>

\* check_vps and the assembly of the TxResult: the VPs consume gas gv under
\* meters derived from the tx meter and end with out.
WasmCheckVps(gv, out) ==
    /\ pc = "wasm_vps"
    /\ LET m == ActiveMeter
           c == add_vps_gas(m, gv)
       IN  IF m.transaction_gas + gv > m.tx_gas_limit
           THEN /\ out # "rejected"
                /\ wasm_res' = Err(IF out = "accepted" THEN "GasError" ELSE out)
                /\ hist' = [hist EXCEPT !.vp_gas = mode]
                /\ UNCHANGED <<tx_gas_meter, unshield_gas_meter>>
           ELSE IF out \in {"StateError", "MissingAddress"}
           THEN /\ wasm_res' = Err(out)
                /\ UNCHANGED <<tx_gas_meter, unshield_gas_meter, hist>>
           ELSE /\ SetActiveMeter(c.meter)
                /\ hist' = IF mode = "unshield" THEN hist
                           ELSE [hist EXCEPT !.payload_gas = @ + gv]
                /\ wasm_res' =
                      IF ~c.ok THEN Err("GasError")
                      ELSE [NoResult EXCEPT !.status = "ok",
                                            !.accepted = (out = "accepted"),
                                            !.gas_used = c.meter.transaction_gas,
                                            !.changed_keys = get_keys(wl)]
    /\ pc' = ReturnPc
    /\ UNCHANGED <<cur, tx_bytes, wrapper_args, wl, storage, changed_keys,
                   valid_fee_unshielding, mode, result, block_proposer, eth, vps, call, stw,
                   ndispatch, applied, pre>>

\* What dispatch_tx makes of the payload's result.
DispatchResult ==
    IF wasm_res.status = "ok" /\ cur.tx_type = "Wrapper"
    THEN [wasm_res EXCEPT !.wrapper_changed_keys = changed_keys]
    ELSE wasm_res

\* Mutant: dispatch_tx commits the tx buffer before it returns.
DispatchReturn_Commits ==
    /\ pc = "dispatch_return"
    /\ result' = DispatchResult
    /\ wl' = commit_tx(wl)
    /\ pc' = "done"
    /\ UNCHANGED <<cur, tx_bytes, tx_gas_meter, unshield_gas_meter, wrapper_args,
                   storage, changed_keys, valid_fee_unshielding, mode, wasm_res,
                   block_proposer, ndispatch, applied, pre, hist, eth, vps, call, stw>>

\* Mutant: dispatch_tx drops the tx buffer before it returns.
DispatchReturn_Drops ==
    /\ pc = "dispatch_return"
    /\ result' = DispatchResult
    /\ wl' = drop_tx(wl)
    /\ pc' = "done"
    /\ UNCHANGED <<cur, tx_bytes, tx_gas_meter, unshield_gas_meter, wrapper_args,
                   storage, changed_keys, valid_fee_unshielding, mode, wasm_res,
                   block_proposer, ndispatch, applied, pre, hist, eth, vps, call, stw>>

\* dispatch_tx returns what apply_wasm_tx returned on the payload, with the
\* wrapper's changed keys added to an Ok result.
DispatchReturn ==
    /\ pc = "dispatch_return"
    /\ result' = DispatchResult
    /\ pc' = "done"
    /\ UNCHANGED <<cur, tx_bytes, tx_gas_meter, unshield_gas_meter, wrapper_args,
                   wl, storage, changed_keys, valid_fee_unshielding, mode,
                   wasm_res, block_proposer, eth, vps, call, stw, ndispatch, applied, pre, hist>>

\* ------------------------------------------------------------- block applier
\* The caller of dispatch_tx ends the transaction: it commits the tx buffer of
\* an accepted transaction and drops it otherwise.
CallerEnds(w) ==
    /\ pc = "done"
    /\ wl' = w
    /\ applied' = applied \cup {cur.id}
    /\ pc' = "idle"
    /\ cur' = NoTx
    /\ tx_bytes' = 0
    /\ tx_gas_meter' = NewMeter(0)
    /\ unshield_gas_meter' = NewMeter(0)
    /\ wrapper_args' = NoArgs
    /\ changed_keys' = {}
    /\ valid_fee_unshielding' = "unset"
    /\ mode' = "payload"
    /\ wasm_res' = NoResult
    /\ result' = NoResult
    /\ pre' = EmptyWl
    /\ hist' = NoHist
    /\ UNCHANGED <<storage, block_proposer, eth, vps, call, stw, ndispatch>>

CallerCommitTx ==
    /\ result.status = "ok" /\ result.accepted
    /\ CallerEnds(commit_tx(wl))

CallerDropTx ==
    /\ ~(result.status = "ok" /\ result.accepted)
    /\ CallerEnds(drop_tx(wl))

\* ------------------------------------------------------------- VP run
\* The variables of dispatch_tx.
dispatch_vars ==
    <<pc, cur, tx_bytes, tx_gas_meter, unshield_gas_meter, wrapper_args, wl,
      storage, changed_keys, valid_fee_unshielding, mode, wasm_res, result,
      block_proposer, ndispatch, applied, pre, hist, eth, call, stw>>

\* The tx gas meters check_vps may be called with.
VpMeters ==
    {m \in [tx_gas_limit : {0, MaxStepGas, MaxStepGas + 2}, transaction_gas : {0, 1}] :
        m.transaction_gas <= m.tx_gas_limit}

\* The behaviours of the verifiers of vs.
BehaviourMaps(vs) ==
    {f \in [vs -> UNION {Behaviours(a) : a \in VpAddrs}] :
        \A a \in vs : f[a] \in Behaviours(a)}

NewTask(items) ==
    [items |-> items, inflight |-> FALSE, out |-> VpsOk(VpsResultDefault),
     done |-> FALSE]

\* A call of check_vps: a verifier set, the behaviour of each verifier, a tx
\* gas meter and a split of the verifiers among tasks; dispatch_tx is idle.
InitVps ==
    /\ pc = "idle"
    /\ cur = NoTx
    /\ tx_bytes = 0
    /\ tx_gas_meter = NewMeter(0)
    /\ unshield_gas_meter = NewMeter(0)
    /\ wrapper_args = NoArgs
    /\ block_proposer = "proposer"
    /\ wl = EmptyWl
    /\ storage = [k \in Keys |-> NoVal]
    /\ changed_keys = {}
    /\ valid_fee_unshielding = "unset"
    /\ mode = "payload"
    /\ wasm_res = NoResult
    /\ result = NoResult
    /\ ndispatch = 0
    /\ applied = {}
    /\ pre = EmptyWl
    /\ hist = NoHist
    /\ eth = NoTallies
    /\ call = NoCall
    /\ stw = NoSteward
    /\ \E vs \in SUBSET VpAddrs :
          /\ Cardinality(vs) <= MaxVerifiers
          /\ \E behav \in BehaviourMaps(vs), m \in VpMeters,
                split \in Splits(Ordered(vs)) :
                vps = [NoVps EXCEPT
                          !.phase = "fold", !.verifiers = vs, !.behav = behav,
                          !.meter = m, !.ntasks = Len(split),
                          !.tasks = [i \in 1..Len(split) |-> NewTask(split[i])]]

\* A task turns to its next verifier, or stops when the run is short-circuited.
VpTaskStart(i) ==
    /\ vps.phase = "fold"
    /\ ~vps.tasks[i].done
    /\ ~vps.tasks[i].inflight
    /\ vps' = [vps EXCEPT !.tasks[i] =
                  IF vps.full THEN [@ EXCEPT !.done = TRUE]
                  ELSE [@ EXCEPT !.inflight = TRUE]]
    /\ UNCHANGED dispatch_vars

\* A task completes the evaluation of a verifier: the closure of try_fold.
VpTaskFinish(i) ==
    /\ vps.phase = "fold"
    /\ vps.tasks[i].inflight
    /\ LET t == vps.tasks[i]
           addr == Head(t.items)
           ta == tx_accepted(addr, vps.behav[addr], vps.verifiers, vps.meter)
           r == fold_closure(t.out.value, addr, vps.behav[addr], vps.verifiers,
                             vps.meter)
       IN  vps' = [vps EXCEPT
                      !.tasks[i] = [items |-> Tail(t.items), inflight |-> FALSE,
                                    out |-> r,
                                    done |-> ~r.ok \/ Tail(t.items) = <<>>],
                      !.full = @ \/ ~r.ok,
                      !.evaluated = @ \cup {addr},
                      !.ran = @ \cup (IF ta.ran THEN {addr} ELSE {}),
                      !.gas_raised =
                          @ \cup (IF ~r.ok /\ r.error = "GasError" THEN {addr}
                                  ELSE {})]
    /\ UNCHANGED dispatch_vars

\* try_reduce on two neighbouring completed tasks.
VpReduce(i) ==
    /\ vps.phase = "fold"
    /\ i < Len(vps.tasks)
    /\ vps.tasks[i].done
    /\ vps.tasks[i + 1].done
    /\ LET r == try_reduce(vps.tasks[i].out, vps.tasks[i + 1].out, vps.meter)
           merged == [items |-> <<>>, inflight |-> FALSE, out |-> r, done |-> TRUE]
       IN  vps' = [vps EXCEPT
                      !.tasks = SubSeq(@, 1, i - 1) \o <<merged>>
                                   \o SubSeq(@, i + 2, Len(@)),
                      !.full = @ \/ ~r.ok]
    /\ UNCHANGED dispatch_vars

\* execute_vps returns the reduced result; check_vps charges the VP gas.
VpReturn ==
    /\ vps.phase = "fold"
    /\ Len(vps.tasks) <= 1
    /\ \A i \in 1..Len(vps.tasks) : vps.tasks[i].done
    /\ LET r == IF vps.tasks = <<>> THEN VpsOk(VpsResultDefault)
                ELSE vps.tasks[1].out
       IN  vps' = [vps EXCEPT !.phase = "returned", !.result = r,
                              !.checked = check_vps(r, vps.meter)]
    /\ UNCHANGED dispatch_vars

NextVps ==
    \/ \E i \in 1..Len(vps.tasks) : VpTaskStart(i)
    \/ \E i \in 1..Len(vps.tasks) : VpTaskFinish(i)
    \/ \E i \in 1..Len(vps.tasks) : VpReduce(i)
    \/ VpReturn

\* ------------------------------------------------------------- specification
Next ==
    \/ \E tx \in Txs, wa \in WrapperArgsInputs :
          /\ tx.tx_type = "Raw" => wa = NoArgs
          /\ StartDispatch(tx, wa)
    \/ \E tx \in ProtocolTxs, fold_ok \in BOOLEAN : DispatchProtocol(tx, fold_ok)
    \/ ApplyWrapperWriteTxHash
    \/ \E generated \in BOOLEAN : ChargeFeeUnshield(generated)
    \/ RunFeeUnshieldingEnd
    \/ ChargeFeeStep
    \/ ChargeFeeCommit
    \/ ChargeFeeFlag
    \/ ApplyWrapperGas
    \/ WasmReplayCheck
    \/ \E g \in StepGas, ws \in RunnerWrites(mode, wl, storage),
          out \in RunnerOutcomes : WasmExecuteTx(g, ws, out)
    \/ \E gv \in StepGas, out \in VpOutcomes : WasmCheckVps(gv, out)
    \/ DispatchReturn
    \/ CallerCommitTx
    \/ CallerDropTx

\* ------------------------------------------------------------- run_fee_unshielding alone
\* The tx gas meters run_fee_unshielding may be called with.
UnshieldMeters ==
    {m \in [tx_gas_limit : {1, MaxStepGas + 2}, transaction_gas : 0..MaxStepGas] :
        m.transaction_gas <= m.tx_gas_limit}

\* charge_fee called on a wrapper with a MASP section, its header hash in
\* the tx buffer, under a tx gas meter that may have consumed gas.
InitUnshield ==
    /\ pc = "fee_unshield"
    /\ tx_gas_meter \in UnshieldMeters
    /\ cur \in {[t EXCEPT !.gas_limit = tx_gas_meter.tx_gas_limit] :
                   t \in {x \in Txs : get_fee_unshielding_transaction(x)}}
    /\ tx_bytes = cur.bytes
    /\ unshield_gas_meter = NewMeter(0)
    /\ block_proposer \in Addresses
    /\ wrapper_args \in WrapperArgsInputs
    /\ wl = write_tx_hash(EmptyWl, header_hash(cur))
    /\ \E pb \in InitPayerBalances, qb \in InitProposerBalances, rp \in InitReplayed :
          /\ pb + qb <= AmountMax
          /\ storage = [k \in Keys |->
                        IF k = balance_key("payer") THEN pb
                        ELSE IF k = balance_key("proposer") THEN qb
                        ELSE IF k \in {replay_key(<<"raw", i>>) : i \in rp} THEN 1
                        ELSE NoVal]
    /\ changed_keys = {}
    /\ valid_fee_unshielding = "unset"
    /\ mode = "payload"
    /\ wasm_res = NoResult
    /\ result = NoResult
    /\ ndispatch = 1
    /\ applied = {}
    /\ pre = EmptyWl
    /\ hist = [NoHist EXCEPT !.flag_before = wrapper_args.is_committed_fee_unshield]
    /\ eth = NoTallies
    /\ vps = NoVps
    /\ call = NoCall
    /\ stw = NoSteward

\* run_fee_unshielding from its call to its return.
NextUnshield ==
    \/ \E generated \in BOOLEAN : ChargeFeeUnshield(generated)
    \/ WasmReplayCheck
    \/ \E g \in StepGas, ws \in RunnerWrites(mode, wl, storage),
          out \in RunnerOutcomes : WasmExecuteTx(g, ws, out)
    \/ \E gv \in StepGas, out \in VpOutcomes : WasmCheckVps(gv, out)
    \/ RunFeeUnshieldingEnd

\* ------------------------------------------------ the fee functions alone
\* The balances of the fee token an address may hold.
FeeBalances == 0..AmountMax

\* The wrappers transfer_fee is called with.
Wrappers == {t \in Txs : t.tx_type = "Wrapper"}

\* What is left unchanged by a call of the fee functions on their own.
fee_vars ==
    <<pc, tx_bytes, tx_gas_meter, unshield_gas_meter, wrapper_args, storage,
      changed_keys, valid_fee_unshielding, mode, wasm_res, result,
      block_proposer, applied, hist, eth, vps, stw>>

\* Calls of token_transfer and transfer_fee on a write-log and a storage in
\* which each balance is any Amount; dispatch_tx is idle.
InitFee ==
    /\ pc = "idle"
    /\ cur = NoTx
    /\ tx_bytes = 0
    /\ tx_gas_meter = NewMeter(0)
    /\ unshield_gas_meter = NewMeter(0)
    /\ wrapper_args = NoArgs
    /\ block_proposer \in Addresses
    /\ wl = EmptyWl
    /\ \E pb \in FeeBalances, qb \in FeeBalances :
          storage = [k \in Keys |->
                        IF k = balance_key("payer") THEN pb
                        ELSE IF k = balance_key("proposer") THEN qb
                        ELSE NoVal]
    /\ changed_keys = {}
    /\ valid_fee_unshielding = "unset"
    /\ mode = "payload"
    /\ wasm_res = NoResult
    /\ result = NoResult
    /\ ndispatch = 0
    /\ applied = {}
    /\ pre = EmptyWl
    /\ hist = NoHist
    /\ eth = NoTallies
    /\ vps = NoVps
    /\ call = NoCall
    /\ stw = NoSteward

\* A call of token_transfer; pre is the write-log it was called on.
FeeTokenTransfer(src, dest, amount) ==
    /\ ndispatch < MaxFeeCalls
    /\ LET r == token_transfer(wl, storage, src, dest, amount)
       IN  /\ wl' = r.wl
           /\ call' = [fn |-> "token_transfer", src |-> src, dest |-> dest,
                       amount |-> amount, ok |-> r.ok]
    /\ pre' = wl
    /\ ndispatch' = ndispatch + 1
    /\ UNCHANGED cur
    /\ UNCHANGED fee_vars

\* A call of transfer_fee for the block proposer; pre is the write-log it was
\* called on.
FeeTransferFee(wrapper) ==
    /\ ndispatch < MaxFeeCalls
    /\ LET r == transfer_fee(wl, storage, block_proposer, wrapper)
       IN  /\ wl' = r.wl
           /\ call' = [fn |-> "transfer_fee", src |-> fee_payer(wrapper),
                       dest |-> block_proposer, amount |-> wrapper.fee,
                       ok |-> r.ok]
    /\ cur' = wrapper
    /\ pre' = wl
    /\ ndispatch' = ndispatch + 1
    /\ UNCHANGED fee_vars

\* The caller commits the tx buffer after the call.
FeeCommitTx ==
    /\ call.fn # "none"
    /\ wl' = commit_tx(wl)
    /\ call' = NoCall
    /\ UNCHANGED <<cur, pre, ndispatch>>
    /\ UNCHANGED fee_vars

\* The caller drops the tx buffer after the call.
FeeDropTx ==
    /\ call.fn # "none"
    /\ wl' = drop_tx(wl)
    /\ call' = NoCall
    /\ UNCHANGED <<cur, pre, ndispatch>>
    /\ UNCHANGED fee_vars

NextFee ==
    \/ \E src \in Addresses, dest \in Addresses, amount \in FeeBalances :
          FeeTokenTransfer(src, dest, amount)
    \/ \E wrapper \in Wrappers : FeeTransferFee(wrapper)
    \/ FeeCommitTx
    \/ FeeDropTx

\* ------------------------------------------- tx_update_steward_commission
\* The data sections apply_tx may find: none, bytes that do not decode, or an
\* UpdateStewardCommission.
StewardDataInputs ==
    {[NoStewardData EXCEPT !.kind = k] : k \in {"absent", "undecodable"}} \cup
    {[kind |-> "ok", steward |-> s, commission |-> c] :
        s \in Stewards, c \in Commissions}

\* What apply_tx of tx_update_steward_commission leaves unchanged.
steward_vars ==
    <<pc, cur, tx_bytes, tx_gas_meter, unshield_gas_meter, wrapper_args, wl,
      storage, changed_keys, valid_fee_unshielding, mode, wasm_res, result,
      block_proposer, ndispatch, applied, pre, hist, eth, vps, call>>

\* apply_tx is called with a tx and a fresh Ctx; dispatch_tx is idle.
InitSteward ==
    /\ pc = "idle"
    /\ cur = NoTx
    /\ tx_bytes = 0
    /\ tx_gas_meter = NewMeter(0)
    /\ unshield_gas_meter = NewMeter(0)
    /\ wrapper_args = NoArgs
    /\ block_proposer = "proposer"
    /\ wl = EmptyWl
    /\ storage = [k \in Keys |-> NoVal]
    /\ changed_keys = {}
    /\ valid_fee_unshielding = "unset"
    /\ mode = "payload"
    /\ wasm_res = NoResult
    /\ result = NoResult
    /\ ndispatch = 0
    /\ applied = {}
    /\ pre = EmptyWl
    /\ hist = NoHist
    /\ eth = NoTallies
    /\ vps = NoVps
    /\ call = NoCall
    /\ \E d \in StewardDataInputs, cs \in [Stewards -> Commissions] :
          stw = [NoSteward EXCEPT !.pc = "data", !.data = d,
                                  !.commissions = cs, !.before = cs]

\* signed.data(): without a data section the commitment sentinel is set and
\* apply_tx returns the error.
ApplyTxData ==
    /\ stw.pc = "data"
    /\ stw' = IF stw.data.kind = "absent"
              THEN [stw EXCEPT !.pc = "done", !.sentinel = TRUE, !.result = "err"]
              ELSE [stw EXCEPT !.pc = "decode"]
    /\ UNCHANGED steward_vars

\* UpdateStewardCommission::try_from_slice: apply_tx returns the error when
\* the data do not decode.
ApplyTxDecode ==
    /\ stw.pc = "decode"
    /\ stw' = IF stw.data.kind = "ok"
              THEN [stw EXCEPT !.pc = "insert_verifier"]
              ELSE [stw EXCEPT !.pc = "done", !.result = "err"]
    /\ UNCHANGED steward_vars

\* Mutant: the steward is not inserted into the verifier set.
ApplyTxInsertVerifier_Skipped(ok) ==
    /\ stw.pc = "insert_verifier"
    /\ stw' = IF ok
              THEN [stw EXCEPT !.pc = "update"]
              ELSE [stw EXCEPT !.pc = "done", !.result = "err"]
    /\ UNCHANGED steward_vars

\* ctx.insert_verifier(&steward_commission.steward): ok is whether the host
\* call succeeded.
ApplyTxInsertVerifier(ok) ==
    /\ stw.pc = "insert_verifier"
    /\ stw' = IF ok
              THEN [stw EXCEPT !.pc = "update",
                               !.verifiers = @ \cup {stw.data.steward}]
              ELSE [stw EXCEPT !.pc = "done", !.result = "err"]
    /\ UNCHANGED steward_vars

\* pgf::update_steward_commission: ok is whether it succeeded; it writes the
\* commission of the steward when it does.
ApplyTxUpdateStewardCommission(ok) ==
    /\ stw.pc = "update"
    /\ stw' = IF ok
              THEN [stw EXCEPT !.pc = "done", !.result = "ok",
                               !.commissions[stw.data.steward] = stw.data.commission]
              ELSE [stw EXCEPT !.pc = "done", !.result = "err"]
    /\ UNCHANGED steward_vars

NextSteward ==
    \/ ApplyTxData
    \/ ApplyTxDecode
    \/ \E ok \in BOOLEAN : ApplyTxInsertVerifier(ok)
    \/ \E ok \in BOOLEAN : ApplyTxUpdateStewardCommission(ok)

Spec == Init /\ [][Next]_vars

SpecUnshield == InitUnshield /\ [][NextUnshield]_vars

SpecVps == InitVps /\ [][NextVps]_vars

SpecFee == InitFee /\ [][NextFee]_vars

SpecSteward == InitSteward /\ [][NextSteward]_vars

\* ------------------------------------------------------------- properties
IsWrapper == cur.tx_type = "Wrapper"

\* The wrapper pass returned an error.
WrapperPassFailed == pc = "done" /\ result.error = "WrapperRunnerError"

\* dispatch_tx returned a replay error.
ReplayFailure ==
    /\ result.status = "err"
    /\ \/ result.error = "ReplayAttempt"
       \/ result.error = "WrapperRunnerError" /\ result.inner = "ReplayAttempt"

\* C1: a wrapper dispatched a second time in the block, the replay entry of
\* its first dispatch in the index, fails with ReplayAttempt, or with
\* WrapperRunnerError wrapping it, and leaves the state (balances, write-log
\* buffers, replay index) as the first dispatch left it: the fee is not
\* charged again.
C1_ReplayImmunity ==
    (/\ pc = "done"
     /\ IsWrapper
     /\ cur.id \in applied
     /\ has_replay_protection_entry(pre, storage, header_hash(cur)))
        => (ReplayFailure /\ wl = pre)

\* C2: in the wrapper pass the header hash is in the replay index before fee
\* unshielding, the fee step, the commit and the wrapper-gas charge act, the
\* write being the first thing the pass does; whatever the pass returns (Ok,
\* Fee error, Gas error), the header hash is in the index.
C2_HashWrittenFirst ==
    /\ (IsWrapper /\ pc = "write_tx_hash")
          => (wl = pre /\ tx_gas_meter.transaction_gas = 0 /\ hist.fee_step = "none"
              /\ hist.unshield = "none" /\ ~hist.committed)
    /\ (IsWrapper /\ pc \notin {"idle", "write_tx_hash"})
          => has_replay_protection_entry(wl, storage, header_hash(cur))

\* A wrapper pass that failed in the fee step, with the header hash, new to the
\* index, written.
C2_Witness ==
    /\ WrapperPassFailed
    /\ result.inner = "FeeError"
    /\ ~has_replay_protection_entry(pre, storage, header_hash(cur))
    /\ has_replay_protection_entry(wl, storage, header_hash(cur))

\* C3: when the wrapper pass fails, the payload was not executed and wrote
\* nothing, the wrapper's replay entry is in the index, and its fee-transfer
\* writes are committed: none of them is pending in the tx or precommit buffer.
C3_WrapperFailureCommitted ==
    WrapperPassFailed
        => /\ ~hist.payload_started
           /\ hist.payload_writes = EmptyBuf
           /\ has_replay_protection_entry(wl, storage, header_hash(cur))
           /\ \A a \in Addresses :
                 /\ wl.tx[balance_key(a)] = NoVal
                 /\ wl.precommit[balance_key(a)] = NoVal

\* The fee step found the payer's balance smaller than the fee, wrapper_args
\* present.
InsufficientBalance ==
    /\ pc = "done"
    /\ IsWrapper
    /\ wrapper_args.present
    /\ hist.fee_step = "err"
    /\ cur.fee # FeeOverflow
    /\ hist.fee_balance < cur.fee

\* The state shows the payer's entire balance moved to the block proposer.
Drained ==
    IF fee_payer(cur) = block_proposer
    THEN read_balance(wl, storage, block_proposer) = hist.fee_balance
    ELSE /\ read_balance(wl, storage, fee_payer(cur)) = 0
         /\ read_balance(wl, storage, block_proposer)
               = hist.fee_dest_balance + hist.fee_balance

FeeInBlock ==
    (wrapper_args.present /\ fee_payer(cur) # block_proposer)
        => /\ wl.block[balance_key(fee_payer(cur))] = hist.fee_balance - cur.fee
           /\ wl.block[balance_key(block_proposer)] = hist.fee_dest_balance + cur.fee

\* C5: in a Wrapper dispatch, once payload execution has begun the wrapper's
\* replay entry and fee transfer are in the block buffer, put there by
\* commit_tx; the tx and precommit buffers are empty when the payload begins;
\* and the block buffer stays as that commit left it until dispatch returns,
\* whether the payload succeeds or fails.
C5_WrapperCommittedBeforePayload ==
    (IsWrapper /\ hist.payload_started)
        => /\ hist.committed
           /\ wl.block = hist.at_commit
           /\ wl.block[replay_key(header_hash(cur))] # NoVal
           /\ FeeInBlock
           /\ wl.precommit = EmptyBuf
           /\ (pc = "wasm_replay" => wl.tx = EmptyBuf)

\* A wrapper's payload failed and the fee is in the block buffer.
C5_Witness ==
    /\ pc = "done"
    /\ IsWrapper
    /\ hist.payload_started
    /\ result.status = "err"
    /\ hist.payload_writes # EmptyBuf
    /\ wrapper_args.present
    /\ fee_payer(cur) # block_proposer
    /\ wl.block[balance_key(block_proposer)] = hist.fee_dest_balance + cur.fee

\* C6: when the unshielding sub-execution fails with a Gas error, the wrapper
\* pass performs the fee step, commits, and then returns that Gas error, with
\* wrapper_args present and absent (stated for a fee step that succeeds).
C6_UnshieldGasErrorReturned ==
    (IsWrapper /\ hist.unshield = "GasError" /\ hist.fee_step = "ok")
        => /\ ~hist.payload_started
           /\ pc = "done" => (hist.committed /\ result = WrapperRunnerError("GasError"))

\* The unshielding sub-execution was rejected by its VPs or failed with a
\* non-gas error.
UnshieldFailedNonGas == hist.unshield \in {"rejected", "other"}

\* is_committed_fee_unshield has been written by charge_fee.
FlagPosted == pc = "wrapper_gas" \/ hist.wrapper_gas # "none"

\* C7: a sub-execution rejected by its VPs, or failed with a non-gas error, is
\* not propagated: run_fee_unshielding returns false, the fee step works on
\* the payer's transparent balance and succeeds when it covers the fee, the
\* fee is charged, is_committed_fee_unshield is set to false, a failure of the
\* wrapper pass is one of the fee step or of the wrapper-gas charge, and the
\* payload is then executed on an empty tx buffer.
C7_UnshieldFailureNotPropagated ==
    (IsWrapper /\ UnshieldFailedNonGas)
        => /\ valid_fee_unshielding = "false"
           /\ hist.fee_step # "none"
                 => hist.fee_balance = read_balance(pre, storage, fee_payer(cur))
           /\ (hist.fee_step # "none" /\ hist.fee_balance >= cur.fee)
                 => hist.fee_step = "ok"
           /\ hist.committed => FeeInBlock
           /\ (FlagPosted /\ wrapper_args.present)
                 => ~wrapper_args.is_committed_fee_unshield
           /\ WrapperPassFailed
                 => (hist.fee_step = "err" \/ hist.wrapper_gas = "err")
           /\ hist.wrapper_gas = "ok" => hist.payload_started
           /\ (hist.payload_started /\ pc = "wasm_replay") => wl.tx = EmptyBuf

\* dispatch succeeded after a rejected unshielding: the fee came from the
\* transparent balance and the flag, true before, is false.
C7_Witness ==
    /\ pc = "done"
    /\ IsWrapper
    /\ hist.unshield = "rejected"
    /\ result.status = "ok"
    /\ wrapper_args.present
    /\ hist.flag_before
    /\ ~wrapper_args.is_committed_fee_unshield
    /\ fee_payer(cur) # block_proposer
    /\ wl.block[balance_key(fee_payer(cur))] = hist.fee_balance - cur.fee

\* C8: after an unshielding sub-execution rejected by its VPs, the tx buffer
\* is empty and the precommit buffer is as before the attempt; from then until
\* dispatch has returned, every key precommitted before the attempt reads with
\* its value and none of the sub-execution's writes is in the state: the
\* shielded pool's key reads as before the dispatch and no token was credited.
C8_UnshieldRollback ==
    (IsWrapper /\ hist.unshield = "rejected")
        => /\ pc = "fee_step"
                 => (wl.tx = EmptyBuf /\ wl.precommit = hist.precommitted)
           /\ \A k \in BufKeys(hist.precommitted) :
                 read(wl, storage, k) = hist.precommitted[k]
           /\ read(wl, storage, MaspKey) = read(pre, storage, MaspKey)
           /\ read_balance(wl, storage, "payer") + read_balance(wl, storage, "proposer")
                 = read_balance(pre, storage, "payer")
                      + read_balance(pre, storage, "proposer")

\* dispatch returned after a rejected sub-execution that had written, with a
\* key precommitted before it.
C8_Witness ==
    /\ pc = "done"
    /\ IsWrapper
    /\ hist.unshield = "rejected"
    /\ hist.sub_writes[MaspKey] = 1
    /\ BufKeys(hist.precommitted) # {}
    /\ read(wl, storage, MaspKey) = NoVal

\* dispatch_tx returned an error of the payload pass.
PayloadFailed == pc = "done" /\ hist.payload_started /\ result.status = "err"

\* C9: when payload execution fails, the block buffer at the return of
\* dispatch is its pre-dispatch value but for the wrapper's commit: it is as
\* the wrapper's commit_tx left it, it differs from the pre-dispatch buffer
\* only in the wrapper's changed keys, and no write of the payload is in it.
C9_PayloadFailureAtomic ==
    PayloadFailed
        => /\ wl.block = hist.at_commit
           /\ wl.precommit = EmptyBuf
           /\ \A k \in Keys \ changed_keys : wl.block[k] = pre.block[k]
           /\ \A k \in BufKeys(hist.payload_writes) : wl.block[k] = pre.block[k]

\* A payload that wrote and then failed, in a Wrapper dispatch.
C9_Witness ==
    /\ PayloadFailed
    /\ IsWrapper
    /\ hist.payload_writes # EmptyBuf
    /\ result.error \in {"GasError", "TxRunnerError", "MissingAddress"}

UnshieldGasCounted ==
    IF hist.unshield \in {"accepted", "rejected", "other"}
    THEN unshield_gas_meter.transaction_gas
    ELSE 0

RECURSIVE fold_all(_, _, _, _, _)
fold_all(res, items, behav, verifiers, m) ==
    IF items = <<>> \/ ~res.ok THEN res
    ELSE fold_all(fold_closure(res.value, Head(items), behav[Head(items)],
                               verifiers, m),
                  Tail(items), behav, verifiers, m)

execute_vps_one_task(verifiers, behav, m) ==
    fold_all(VpsOk(VpsResultDefault), Ordered(verifiers), behav, verifiers, m)

\* The entries of an errors list.
Entries(errors) == {errors[i] : i \in 1..Len(errors)}

\* C12: execute_vps returns Err(Gas) whenever the evaluation of a verifier
\* whose VP ran ended with a Gas error, the VP having consumed more gas than
\* the tx meter leaves, a native VP and a meter of limit 0 included.
C12_VpOutOfGas ==
    (vps.phase = "returned" /\ vps.gas_raised \cap vps.ran # {})
        => (~vps.result.ok /\ vps.result.error = "GasError")

\* A verifier's VP returned an error though gas sufficed, or the verifier is a
\* sentinel address that is refused.
VpFailedNonGas(a) ==
    LET t == tx_accepted(a, vps.behav[a], vps.verifiers, vps.meter)
    IN  /\ a \in vps.evaluated
        /\ a \notin vps.gas_raised
        /\ t.escape = "none"
        /\ t.verdict # "ok"

\* C14: when a verifier's VP fails for a non-gas reason and no Gas error is
\* raised, every verifier is evaluated, execute_vps returns a VpsResult, and
\* accepted and rejected are disjoint and cover the verifier set.
C14_NonGasCompleteness ==
    (/\ vps.phase = "returned"
     /\ \E a \in vps.verifiers : VpFailedNonGas(a)
     /\ vps.gas_raised = {}
     /\ (vps.result.ok \/ vps.result.error # "GasError"))
        => /\ vps.result.ok
           /\ vps.evaluated = vps.verifiers
           /\ vps.result.value.accepted_vps \cap vps.result.value.rejected_vps = {}
           /\ vps.result.value.accepted_vps \cup vps.result.value.rejected_vps
                 = vps.verifiers

\* C15: for a fixed state and transaction, under every split of the verifiers
\* among tasks, every interleaving and every order of the reductions, check_vps
\* returns a result exactly when the fold of a single task does, with the
\* same accepted_vps, rejected_vps, status flags and gas_used, and an errors
\* list with the same entries.
C15_Deterministic ==
    vps.phase = "returned"
        => LET ref == execute_vps_one_task(vps.verifiers, vps.behav, vps.meter)
           IN  /\ vps.result.ok <=> ref.ok
               /\ vps.checked.ok <=> check_vps(ref, vps.meter).ok
               /\ vps.result.ok
                     => /\ vps.result.value.accepted_vps = ref.value.accepted_vps
                        /\ vps.result.value.rejected_vps = ref.value.rejected_vps
                        /\ vps.result.value.gas_used = ref.value.gas_used
                        /\ vps.result.value.status_flags = ref.value.status_flags
                        /\ Len(vps.result.value.errors) = Len(ref.value.errors)
                        /\ Entries(vps.result.value.errors) = Entries(ref.value.errors)

\* A run of several tasks returned a result with acceptances and more than
\* one rejection.
C15_Witness ==
    /\ vps.phase = "returned"
    /\ vps.ntasks > 1
    /\ vps.checked.ok
    /\ vps.result.value.accepted_vps # {}
    /\ Len(vps.result.value.errors) > 1
    /\ vps.result.value.gas_used > 1

\* C16: in the VpsResult execute_vps returns, PosSlashPool and TempStorage are
\* rejected with AccessForbidden; IbcToken and Erc20 are accepted exactly when
\* Multitoken is a verifier and are otherwise rejected with AccessForbidden;
\* and no VP code ever runs for these addresses.
C16_SentinelAddresses ==
    /\ vps.ran \cap {"PosSlashPool", "TempStorage", "IbcToken", "Erc20"} = {}
    /\ (vps.phase = "returned" /\ vps.result.ok)
          => LET r == vps.result.value
             IN  /\ \A a \in vps.verifiers \cap {"PosSlashPool", "TempStorage"} :
                       /\ a \in r.rejected_vps
                       /\ a \notin r.accepted_vps
                       /\ <<a, "AccessForbidden">> \in Entries(r.errors)
                 /\ \A a \in vps.verifiers \cap {"IbcToken", "Erc20"} :
                       /\ a \in r.accepted_vps <=> "Multitoken" \in vps.verifiers
                       /\ a \in r.rejected_vps <=> "Multitoken" \notin vps.verifiers
                       /\ "Multitoken" \notin vps.verifiers
                             => <<a, "AccessForbidden">> \in Entries(r.errors)

\* A result with a token address accepted beside Multitoken and the slash
\* pool rejected.
C16_Witness ==
    /\ vps.phase = "returned"
    /\ vps.result.ok
    /\ "IbcToken" \in vps.result.value.accepted_vps
    /\ "Multitoken" \in vps.verifiers
    /\ "PosSlashPool" \in vps.result.value.rejected_vps

\* ------------------------------------------------------------- properties of dispatch_tx (continued)
\* C13: when a VP task raised a Gas error in a VP run of the dispatch,
\* dispatch_tx returns the Gas error (wrapped as WrapperRunnerError when the
\* run belongs to the wrapper pass).
C13_GasShortCircuit ==
    (pc = "done" /\ hist.vp_gas # "none")
        => /\ result.status = "err"
           /\ \/ result.error = "GasError"
              \/ result.error = "WrapperRunnerError" /\ result.inner = "GasError"

\* The stake behind a set of validators.
StakeOf(S) ==
    (IF "A" \in S THEN stake["A"] ELSE 0) + (IF "B" \in S THEN stake["B"] ELSE 0)

\* C17: applying a vote-extension protocol tx whose validator is already in
\* the tally's seen_by leaves seen_by and the voting power as they were; a
\* vote of a validator not yet seen adds that validator and its stake; the
\* voting power is always the stake of the validators seen, each counted once.
C17_VoteCountedOnce ==
    /\ [](\A k \in VextKinds : eth[k].voting_power = StakeOf(eth[k].seen_by))
    /\ [][(pc = "idle" /\ pc' = "done" /\ cur'.tx_type = "Protocol"
             /\ cur'.kind \in VextKinds)
            => LET k == cur'.kind
                   v == cur'.validator
               IN  IF v \in eth[k].seen_by \/ result'.status # "ok"
                   THEN eth' = eth
                   ELSE eth' = [eth EXCEPT ![k] =
                                   [seen_by |-> @.seen_by \cup {v},
                                    voting_power |-> @.voting_power + stake[v]]]]_vars

\* The vote extension of a validator was applied a second time in the block
\* and its validator is counted once.
C17_Witness ==
    /\ pc = "done"
    /\ cur.tx_type = "Protocol"
    /\ cur.kind = "EthEventsVext"
    /\ result.status = "ok"
    /\ cur.id \in applied
    /\ eth[cur.kind].seen_by = {cur.validator}
    /\ eth[cur.kind].voting_power = stake[cur.validator]

\* C18: an error of the wrapper pass (Fee, Gas) is returned by dispatch_tx as
\* WrapperRunnerError carrying it, never as the original kind; an error of the
\* payload pass is returned as apply_wasm_tx raised it.
C18_WrapperErrorsWrapped ==
    /\ (pc = "done" /\ IsWrapper /\ (hist.fee_step = "err" \/ hist.wrapper_gas = "err"))
          => result.status = "err" /\ ~hist.payload_started
    /\ (pc = "done" /\ result.status = "err" /\ cur.tx_type # "Protocol")
          => IF IsWrapper /\ ~hist.payload_started
             THEN /\ result.error = "WrapperRunnerError"
                  /\ result.inner \in {"FeeError", "GasError"}
                  /\ hist.fee_step = "err" => result.inner = "FeeError"
                  /\ hist.wrapper_gas = "err" => result.inner = "GasError"
             ELSE /\ result = wasm_res
                  /\ result.inner = ""
                  /\ result.error \in {"ReplayAttempt", "GasError", "MissingSection",
                                       "TxRunnerError", "StateError",
                                       "MissingAddress"}

\* A wrapper whose tx_bytes gas exceeded the limit after the fee was paid.
C18_Witness ==
    /\ pc = "done"
    /\ IsWrapper
    /\ hist.fee_step = "ok"
    /\ hist.wrapper_gas = "err"
    /\ result = WrapperRunnerError("GasError")

\* C19: apply_wasm_tx fails with ReplayAttempt whenever the raw header hash of
\* its transaction is in the replay index, and does so at once: the step
\* consumes no gas and leaves the write-log and storage as they were, and a
\* payload that failed so has run no code, no VP and consumed no gas.
C19_ReplayAtEntry ==
    /\ []((pc = "done" /\ hist.payload_started /\ result.error = "ReplayAttempt")
            => /\ hist.payload_writes = EmptyBuf
               /\ hist.payload_gas = 0
               /\ hist.vp_gas # "payload"
               /\ tx_gas_meter.transaction_gas = (IF IsWrapper THEN tx_bytes ELSE 0)
                                                    + UnshieldGasCounted
               /\ cur.tx_type = "Raw" => wl = pre)
    /\ [][(pc = "wasm_replay"
             /\ has_replay_protection_entry(wl, storage, raw_header_hash(SubTx)))
            => /\ wasm_res' = Err("ReplayAttempt")
               /\ pc' = ReturnPc
               /\ wl' = wl
               /\ storage' = storage
               /\ tx_gas_meter' = tx_gas_meter
               /\ unshield_gas_meter' = unshield_gas_meter
               /\ hist' = hist]_vars

\* A wrapper's payload was refused as a replay after the wrapper pass
\* succeeded.
C19_Witness ==
    /\ pc = "done"
    /\ IsWrapper
    /\ hist.payload_started
    /\ result = Err("ReplayAttempt")
    /\ tx_gas_meter.transaction_gas > 0

C21_CheckFeesReadOnly ==
    [][(pc = "fee_step" /\ ~wrapper_args.present)
         => LET balance == read_balance(wl, storage, fee_payer(cur))
                enough == /\ cur.fee # FeeOverflow
                          /\ denom_to_amount(cur.fee).ok
                          /\ balance >= cur.fee
            IN  /\ wl' = wl
                /\ storage' = storage
                /\ (pc' = "commit") <=> enough
                /\ ~enough => /\ pc' = "done"
                              /\ result' = WrapperRunnerError("FeeError")]_vars

\* check_fees accepted the fee of a payer whose balance covers it, and no
\* balance was written.
C21_Witness ==
    /\ pc = "commit"
    /\ ~wrapper_args.present
    /\ hist.fee_step = "ok"
    /\ cur.fee > 0
    /\ hist.fee_balance >= cur.fee
    /\ read_balance(wl, storage, fee_payer(cur)) = hist.fee_balance
    /\ wl.tx[balance_key(block_proposer)] = NoVal

\* C22: dispatching a Protocol transaction, whatever its variant and outcome,
\* consumes no gas, writes nothing to the write-log or storage (no replay
\* entry) and evaluates no verifier.
C22_ProtocolNoGasNoVps ==
    /\ []((pc = "done" /\ cur.tx_type = "Protocol")
            => /\ tx_gas_meter.transaction_gas = 0
               /\ result.gas_used = 0
               /\ hist.payload_gas = 0
               /\ hist.vp_gas = "none"
               /\ vps = NoVps)
    /\ [][(pc = "idle" /\ pc' = "done" /\ cur'.tx_type = "Protocol")
            => /\ wl' = wl
               /\ storage' = storage
               /\ vps' = vps]_vars

\* A vote extension was folded into the tally under a gas meter of limit 0.
C22_Witness ==
    /\ pc = "done"
    /\ cur.tx_type = "Protocol"
    /\ cur.gas_limit = 0
    /\ result.status = "ok"
    /\ result.changed_keys # {}
    /\ tx_gas_meter = NewMeter(0)

\* C23: apply_protocol_tx on absent data, or on data that does not
\* deserialize for the kind, returns ProtocolTxError and leaves the tallies,
\* the write-log and storage unchanged; on EthereumEvents, BridgePool and
\* ValidatorSetUpdate it returns the default TxResult and leaves them
\* unchanged.
C23_ProtocolDataAndNoOps ==
    [][(pc = "idle" /\ pc' = "done" /\ cur'.tx_type = "Protocol")
         => /\ cur'.data # "ok"
                  => /\ result' = Err("ProtocolTxError")
                     /\ eth' = eth /\ wl' = wl /\ storage' = storage
            /\ (cur'.data = "ok" /\ cur'.kind \in UnwrappedKinds)
                  => /\ result'.status = "ok"
                     /\ result'.changed_keys = {}
                     /\ result'.wrapper_changed_keys = {}
                     /\ result'.gas_used = 0
                     /\ eth' = eth /\ wl' = wl /\ storage' = storage]_vars

\* A protocol tx without data was refused after a vote of the same kind had
\* been tallied.
C23_Witness ==
    /\ pc = "done"
    /\ cur.tx_type = "Protocol"
    /\ cur.data = "absent"
    /\ result = Err("ProtocolTxError")
    /\ eth[cur.kind].seen_by # {}

\* C24: whenever run_fee_unshielding has returned, with true, with false or
\* with a Gas error, the consumed gas of the enclosing tx gas meter equals the
\* final consumption of the private unshield meter.
C24_GasCopiedBack ==
    (pc = "fee_step" /\ hist.unshield # "none")
        => tx_gas_meter.transaction_gas = unshield_gas_meter.transaction_gas

\* ------------------------------------------------------------- properties of run_fee_unshielding
\* The ceiling of the private meter for the tx gas meter m.
UnshieldCeiling(m) ==
    IF FeeUnshieldingGasLimit <= m.tx_gas_limit THEN FeeUnshieldingGasLimit
    ELSE m.tx_gas_limit

\* C25: the private meter of the sub-execution has the ceiling
\* min(fee_unshielding_gas_limit, tx gas limit) and starts at the enclosing
\* meter's consumption; run_fee_unshielding returns a Gas error when that
\* consumption already exceeds the ceiling and when the sub-execution takes
\* the private meter above it, though the tx gas limit would allow the gas.
C25_PrivateMeterCeiling ==
    /\ []((mode = "unshield" \/ hist.unshield # "none")
            => unshield_gas_meter.tx_gas_limit = UnshieldCeiling(tx_gas_meter))
    /\ []((pc = "fee_step" /\ hist.unshield # "none"
             /\ (\/ unshield_gas_meter.transaction_gas > UnshieldCeiling(tx_gas_meter)
                 \/ hist.vp_gas = "unshield"))
            => valid_fee_unshielding = "GasError")
    /\ [][(pc = "fee_unshield" /\ get_fee_unshielding_transaction(cur))
            => /\ unshield_gas_meter' =
                     [tx_gas_limit |-> UnshieldCeiling(tx_gas_meter),
                      transaction_gas |-> tx_gas_meter.transaction_gas]
               /\ tx_gas_meter.transaction_gas > UnshieldCeiling(tx_gas_meter)
                     => /\ valid_fee_unshielding' = "GasError"
                        /\ pc' = "fee_step"
                        /\ wl' = wl]_vars

\* C26: the sub-execution starts with an empty tx buffer, the earlier writes
\* (the replay entry of the header hash) being in the precommit buffer; the
\* keys its VP run is given are the keys the sub-execution wrote; the earlier
\* writes stay readable through the write-log and are in the block buffer
\* after the wrapper's commit_tx.
C26_PrecommitHidesWrites ==
    /\ (mode = "unshield" /\ pc = "wasm_replay")
          => /\ wl.tx = EmptyBuf
             /\ wl.precommit = hist.precommitted
             /\ wl.precommit[replay_key(header_hash(cur))] # NoVal
    /\ (mode = "unshield" /\ pc = "wasm_vps")
          => /\ get_keys(wl) = BufKeys(hist.sub_writes)
             /\ replay_key(header_hash(cur)) \notin get_keys(wl)
    /\ mode = "unshield"
          => has_replay_protection_entry(wl, storage, header_hash(cur))
    /\ (IsWrapper /\ hist.committed /\ pc \in {"post_flag", "wrapper_gas"})
          => wl.block[replay_key(header_hash(cur))] # NoVal

\* The VP run of a sub-execution that wrote, with the header hash precommitted.
C26_Witness ==
    /\ mode = "unshield"
    /\ pc = "wasm_vps"
    /\ get_keys(wl) # {}
    /\ wl.precommit[replay_key(header_hash(cur))] # NoVal
    /\ wl.tx[replay_key(header_hash(cur))] = NoVal

\* C27: is_committed_fee_unshield changes during a dispatch only in the step
\* after commit_tx, with the tx and precommit buffers empty; once set to true
\* the sub-execution was accepted by its VPs and its writes are in the block
\* buffer; when the fee step fails the flag keeps the value dispatch_tx
\* received.
C27_FlagAfterCommit ==
    /\ []((FlagPosted /\ wrapper_args.present
             /\ wrapper_args.is_committed_fee_unshield)
            => /\ hist.unshield = "accepted"
               /\ hist.committed
               /\ \A k \in BufKeys(hist.sub_writes) : hist.at_commit[k] # NoVal)
    /\ []((pc = "done" /\ IsWrapper /\ hist.fee_step = "err")
            => /\ ~hist.committed
               /\ wrapper_args.is_committed_fee_unshield = hist.flag_before)
    /\ [][(pc \notin {"idle", "done"}
             /\ wrapper_args'.is_committed_fee_unshield
                   # wrapper_args.is_committed_fee_unshield)
            => /\ pc = "post_flag"
               /\ hist.committed
               /\ wl.tx = EmptyBuf
               /\ wl.precommit = EmptyBuf]_vars

\* The flag went from false to true after an accepted unshielding was
\* committed.
C27_Witness ==
    /\ pc = "wrapper_gas"
    /\ wrapper_args.present
    /\ wrapper_args.is_committed_fee_unshield
    /\ ~hist.flag_before
    /\ hist.unshield = "accepted"
    /\ wl.block[MaspKey] # NoVal

\* ------------------------------------------------------------- properties of the VP run (continued)
\* The evaluation of verifier a fails with a non-gas error: no VP is bound to
\* it, it is refused, or its VP returns an error though gas suffices.
FailsNonGas(a) ==
    LET t == tx_accepted(a, vps.behav[a], vps.verifiers, vps.meter)
    IN  \/ t.escape = "MissingAddress"
        \/ t.escape = "none" /\ t.verdict \notin {"ok", "GasError"}

\* C28: when no storage read fails and no Gas error is raised, execute_vps
\* returns Ok; every verifier whose evaluation fails with a non-gas error
\* (MissingAddress included) is in rejected_vps with exactly one entry in
\* errors, and status_flags is set exactly when some verifier failed with
\* InvalidSectionSignature.
C28_NonGasFailuresRecorded ==
    (/\ vps.phase = "returned"
     /\ \A a \in vps.verifiers : vps.behav[a].lookup # "StateError"
     /\ vps.gas_raised = {}
     /\ (vps.result.ok \/ vps.result.error # "GasError"))
        => /\ vps.result.ok
           /\ \A a \in vps.verifiers :
                 FailsNonGas(a)
                    => /\ a \in vps.result.value.rejected_vps
                       /\ Cardinality({i \in 1..Len(vps.result.value.errors) :
                                          vps.result.value.errors[i][1] = a}) = 1
           /\ vps.result.value.status_flags
                 <=> \E a \in vps.verifiers :
                        tx_accepted(a, vps.behav[a], vps.verifiers,
                                    vps.meter).verdict = "InvalidSectionSignature"

\* The position of an address in the order of the BTreeSet.
AddrPos(a) == CHOOSE i \in 1..Len(VpAddrOrder) : VpAddrOrder[i] = a

\* The addresses of an errors list ascend.
Ascending(errors) ==
    \A i, j \in 1..Len(errors) : i < j => AddrPos(errors[i][1]) < AddrPos(errors[j][1])

\* C29: the errors list of every task accumulator, of every reduced result
\* and of the VpsResult execute_vps returns is in ascending order of the
\* verifier addresses, under every split, interleaving and order of the
\* reductions.
C29_ErrorsCanonicalOrder ==
    /\ \A i \in 1..Len(vps.tasks) :
          vps.tasks[i].out.ok => Ascending(vps.tasks[i].out.value.errors)
    /\ (vps.phase = "returned" /\ vps.result.ok)
          => Ascending(vps.result.value.errors)

\* Three tasks each rejected a verifier and the result lists the three.
C29_Witness ==
    /\ vps.phase = "returned"
    /\ vps.result.ok
    /\ vps.ntasks = 3
    /\ Len(vps.result.value.errors) = 3

\* C30: when execute_vps fails, the error it returns is the one the fold of a
\* single task returns for the same verifiers, state and meter, whatever the
\* split and the interleaving of the tasks.
C30_ErrorKindDeterministic ==
    (vps.phase = "returned" /\ ~vps.result.ok)
        => vps.result.error
              = execute_vps_one_task(vps.verifiers, vps.behav, vps.meter).error

\* The positions of dispatch_tx inside apply_wasm_tx.
WasmPcs == {"wasm_replay", "wasm_execute", "wasm_vps"}

\* C31: apply_wasm_tx never commits or precommits: each of its steps, whatever
\* its outcome, leaves the block buffer, the precommit buffer and committed
\* storage as they were; the VPs read the runner's writes in the tx buffer;
\* and when the payload returns, with rejected VPs too, the tx buffer holds
\* exactly the payload's writes and dropping it gives back the write-log the
\* payload started from.
C31_PayloadNeverCommits ==
    /\ [][(pc \in WasmPcs)
            => /\ wl'.block = wl.block
               /\ wl'.precommit = wl.precommit
               /\ storage' = storage]_vars
    /\ [](pc = "wasm_vps"
            => LET ws == IF mode = "unshield" THEN hist.sub_writes
                         ELSE hist.payload_writes
               IN  \A k \in BufKeys(ws) :
                      /\ wl.tx[k] = ws[k]
                      /\ read(wl, storage, k) = ws[k])
    /\ []((pc = "dispatch_return" /\ hist.payload_started)
            => /\ wl.tx = hist.payload_writes
               /\ wl.block = hist.at_commit
               /\ drop_tx(wl) = [wl EXCEPT !.tx = EmptyBuf]
               /\ drop_tx(wl).block = hist.at_commit)

\* The payload of a wrapper wrote a key and its VPs rejected it: the write is
\* in the tx buffer alone.
C31_Witness ==
    /\ pc = "dispatch_return"
    /\ cur.tx_type = "Wrapper"
    /\ wasm_res.status = "ok"
    /\ ~wasm_res.accepted
    /\ hist.payload_writes # EmptyBuf
    /\ wl.tx = hist.payload_writes
    /\ \A k \in BufKeys(hist.payload_writes) : wl.block[k] = NoVal

\* C32: token_transfer leaves the block and precommit buffers as they are. It
\* returns Ok exactly when the source balance covers the amount and, for
\* distinct addresses, the destination balance plus the amount fits in an
\* Amount; on Ok with distinct addresses the tx buffer holds the new source
\* and destination balances and is otherwise as before; on Ok with src = dest
\* and on every failure the write-log is as before.
C32_TokenTransferTxBuffer ==
    call.fn = "token_transfer"
      => LET src_balance == read_balance(pre, storage, call.src)
             dest_balance == read_balance(pre, storage, call.dest)
         IN  /\ wl.block = pre.block
             /\ wl.precommit = pre.precommit
             /\ call.ok <=> /\ src_balance >= call.amount
                            /\ \/ call.src = call.dest
                               \/ dest_balance + call.amount <= AmountMax
             /\ (~call.ok \/ call.src = call.dest) => wl = pre
             /\ (call.ok /\ call.src # call.dest)
                   => wl.tx = [pre.tx EXCEPT
                                 ![balance_key(call.src)] = src_balance - call.amount,
                                 ![balance_key(call.dest)] = dest_balance + call.amount]

\* token_transfer refused a transfer that the source covers and that would
\* overflow the destination, on a write-log whose block buffer holds balances.
C32_Witness ==
    /\ call.fn = "token_transfer"
    /\ ~call.ok
    /\ call.src # call.dest
    /\ call.amount > 0
    /\ read_balance(pre, storage, call.src) >= call.amount
    /\ read_balance(pre, storage, call.dest) + call.amount > AmountMax
    /\ pre.block # EmptyBuf
    /\ wl = pre

\* The payer's and the proposer's balances of the fee token, read through the
\* write-log.
FeeSupply(w, st) == read_balance(w, st, "payer") + read_balance(w, st, "proposer")

\* C33: every call of transfer_fee, whatever its outcome, leaves the sum of
\* the payer's and the proposer's balances read through the write-log as it
\* was; across calls, commits and drops that sum stays the one of committed
\* storage, and every balance read is an Amount (never negative, never above
\* the maximum).
C33_FeesConserveTokens ==
    /\ [][(call'.fn = "transfer_fee" /\ ndispatch' = ndispatch + 1)
            => /\ FeeSupply(wl', storage') = FeeSupply(wl, storage)
               /\ \A a \in Addresses : read_balance(wl', storage', a) >= 0]_vars
    /\ [](/\ FeeSupply(wl, storage) = FeeSupply(EmptyWl, storage)
          /\ \A a \in Addresses : read_balance(wl, storage, a) \in FeeBalances
          /\ \A k \in BufKeys(wl.tx) \cup BufKeys(wl.block) :
                wl.tx[k] \in FeeBalances \cup {NoVal}
                  /\ wl.block[k] \in FeeBalances \cup {NoVal})

\* transfer_fee failed on a fee the payer covers because the proposer's
\* balance would overflow, after an earlier transfer was committed; nothing
\* was written.
C33_Witness ==
    /\ call.fn = "transfer_fee"
    /\ ~call.ok
    /\ call.src # call.dest
    /\ call.amount > 0
    /\ read_balance(pre, storage, call.src) >= call.amount
    /\ read_balance(pre, storage, call.dest) + call.amount > AmountMax
    /\ pre.block # EmptyBuf
    /\ wl = pre

\* C34: in tx_update_steward_commission a commission is written only by the
\* update step, after the steward decoded from the tx data was inserted into
\* the verifier set, and only that steward's commission changes; an apply_tx
\* that returned Ok has the steward among its verifiers; when the data section
\* is missing (the commitment sentinel is then set) or does not decode,
\* apply_tx returns an error with no verifier inserted and no commission
\* changed.
C34_StewardVerifiesUpdate ==
    /\ [][stw'.commissions # stw.commissions
            => /\ stw.pc = "update"
               /\ stw.data.kind = "ok"
               /\ stw.data.steward \in stw.verifiers
               /\ \A s \in Stewards \ {stw.data.steward} :
                     stw'.commissions[s] = stw.commissions[s]]_vars
    /\ [](/\ stw.commissions # stw.before => stw.data.steward \in stw.verifiers
          /\ stw.result = "ok"
                => /\ stw.data.steward \in stw.verifiers
                   /\ stw.commissions =
                        [stw.before EXCEPT ![stw.data.steward] = stw.data.commission]
          /\ stw.verifiers \subseteq {stw.data.steward}
          /\ (stw.pc = "done" /\ stw.data.kind # "ok")
                => /\ stw.result = "err"
                   /\ stw.verifiers = {}
                   /\ stw.commissions = stw.before
          /\ (stw.pc = "done" /\ stw.data.kind = "absent") => stw.sentinel)

\* apply_tx changed the commission of a steward that it had inserted into
\* the verifier set.
C34_Witness ==
    /\ stw.pc = "done"
    /\ stw.result = "ok"
    /\ stw.commissions # stw.before
    /\ stw.verifiers = {stw.data.steward}
    /\ ~stw.sentinel
====
